---- MODULE Spec2Model ----
(***************************************************************************)
(* Live match simulation of cjavdev/believe: the MatchSimulationService    *)
(* generator (app/services/match_simulation.py) and the WebSocket session  *)
(* that streams it (app/routers/websocket.py, live_match_simulation).      *)
(*                                                                         *)
(* Random draws are nondeterministic choices.  Possession is a float in    *)
(* the program; the model keeps it in whole percentage points and draws    *)
(* the shift of random.uniform(-5, 5) from Shifts.                         *)
(***************************************************************************)
EXTENDS Integers, Sequences, FiniteSets, TLC

\* ---------------------------------------------------------------- bounds
\* Minutes of one match on which _generate_random_event returns an event.
MaxRandomEvents == 1
\* Number of text messages a client sends during one session.
MaxClientMsgs == 2
\* Minutes on which an event fires where the timing of the stream is explored.
MaxClockEvents == 3
\* Minutes on which an event fires where score and counters are explored.
MaxStatEvents == 2

\* ------------------------------------------------------ program constants
KickoffMinute == 0
FirstHalfLast == 45
SecondHalfLast == 90
MaxAddedMinutes == 5
MinPossession == 30
MaxPossession == 70
InitialPossession == 50
MaxShift == 5
\* added_time = None
Absent == -1

\* Query(ge=0.1, le=10.0) and Query(ge=1, le=10); speed in tenths
MinSpeed == 1
MaxSpeed == 100
DefaultSpeed == 10
MinExcitement == 1
MaxExcitement == 10
DefaultExcitement == 5

Clients == {"c1", "c2"}
\* The connections the single-session specification opens.
Solo == {"c1"}

\* str(uuid.uuid4())[:8]: the values the model draws
UuidPrefixes == {"id1", "id2"}
\* The value drawn where a single session is open.
SoloIds == {"id1"}
NoId == "none"

Sides == {"home", "away"}

RICHMOND_PLAYERS ==
    <<"Sam Obisanya", "Jamie Tartt", "Dani Rojas", "Roy Kent", "Isaac McAdoo",
      "Colin Hughes", "Richard Montlaur", "Jan Maas", "Moe Bumbercatch",
      "Zoreaux">>

AWAY_PLAYERS ==
    <<"Marcus Sterling", "Joao Silva", "Ahmed Hassan", "Oliver Thompson",
      "David Campbell", "Michael Brown", "James Wilson", "Patrick O'Brien",
      "Thomas Mueller", "Carlos Ramirez">>

NoPlayer == "none"

\* _get_player: the names random.choice(players) can return
GetPlayer(team) ==
    LET players == IF team = "home" THEN RICHMOND_PLAYERS ELSE AWAY_PLAYERS
    IN  {players[i] : i \in 1..Len(players)}
NoTeam == "none"

\* random.uniform(-5, 5), in whole points
Shifts == {-MaxShift, 0, MaxShift}
\* The draws the control-protocol specification explores.
ControlDraws == {"goal"}
\* The draws the timing specification explores.
ClockDraws == {"foul", "penalty_awarded"}
ControlShifts == {0}

\* the event types _generate_random_event draws from (event_weights)
DrawTypes ==
    {"possession_change", "foul", "shot_off_target", "shot_on_target",
     "corner", "offside", "save", "free_kick", "yellow_card", "goal",
     "injury", "penalty_awarded", "red_card"}

\* LiveMatchEventType
EventTypes ==
    {"match_start", "goal", "possession_change", "foul", "yellow_card",
     "red_card", "penalty_awarded", "penalty_scored", "penalty_missed",
     "substitution", "injury", "offside", "corner", "free_kick",
     "shot_on_target", "shot_off_target", "save", "halftime",
     "second_half_start", "added_time", "match_end"}

StructuralTypes ==
    {"match_start", "halftime", "second_half_start", "added_time", "match_end"}

ScoringTypes == {"goal", "penalty_scored"}

\* The minutes of range(1, 46) and range(46, 91), and the sub-ticks of the
\* added-time loop, on which the model lets an event fire: the first and the
\* last of each loop.
FirstHalfMinutes == {m \in 1..FirstHalfLast : m \in {1, FirstHalfLast}}
SecondHalfMinutes ==
    {m \in (FirstHalfLast + 1)..SecondHalfLast : m \in {FirstHalfLast + 1, SecondHalfLast}}
AddedTicks == {a \in 1..MaxAddedMinutes : a \in {1, MaxAddedMinutes}}
\* random.randint(1, 5): the values the model draws
AddedMinutesChoices == {n \in 1..MaxAddedMinutes : n \in {1, MaxAddedMinutes}}

Phases ==
    <<"NONE", "CREATED", "KICKOFF", "FIRST_HALF", "HALFTIME", "SECOND_HALF_START",
      "SECOND_HALF", "ADDED_TIME", "FULL_TIME">>

PhaseRank(p) == CHOOSE i \in 1..Len(Phases) : Phases[i] = p

VARIABLES
    pc,                 \* position of each connection's handler
    active_connections, \* ConnectionManager.active_connections (its keys)
    sim,                \* the connection's MatchSimulationService
    event,              \* the event the generator yielded last
    final_event,        \* the handler's final_event
    outbound,           \* messages delivered to the client, in order
    inbound,            \* client messages not yet received by the handler
    connected,          \* the client has not disconnected
    client_sent,        \* number of text messages the client has sent
    noticed,            \* a send or receive raised WebSocketDisconnect
    io_calls,           \* send and receive calls the handler has made
    fired,              \* minutes on which a random event has fired
    yielded,            \* the events simulate_match has yielded, in order
    exit_path,          \* how the handler left: its except clause
    params,             \* the query parameters of the connection request
    closed,             \* websocket.close() has been called and returned
    client_id,          \* the handler's client_id
    goal,               \* _handle_goal: the goal whose assist is being drawn
    sleeps,             \* asyncio.sleep calls simulate_match has made
    polls,              \* client texts the control poll has received
    detail,             \* players and texts of the event yielded last
    goals_for           \* goal and penalty_scored events yielded, by side

vars == <<pc, active_connections, sim, event, final_event, outbound, inbound,
          connected, client_sent, noticed, io_calls, fired, yielded, exit_path,
          params, closed, client_id, goal, sleeps, polls, detail, goals_for>>

\* ------------------------------------------------ connection parameters
\* speed and excitement_level when the request names neither
DefaultParams == [speed |-> DefaultSpeed, excitement_level |-> DefaultExcitement]

\* The requests a client makes: each parameter below, at and above its range.
ParamChoices ==
    [speed : {MinSpeed - 1, MinSpeed, MaxSpeed, MaxSpeed + 1},
     excitement_level : {MinExcitement - 1, MinExcitement, MaxExcitement,
                         MaxExcitement + 1}]

\* The Query constraints of the endpoint's signature, which the framework
\* checks before it calls the handler.
QueryValid(p) ==
    /\ p.speed >= MinSpeed
    /\ p.speed <= MaxSpeed
    /\ p.excitement_level >= MinExcitement
    /\ p.excitement_level <= MaxExcitement

\* The Field constraints of MatchConfig, checked when the handler builds it.
ConfigValid(p) ==
    /\ p.speed >= MinSpeed
    /\ p.speed <= MaxSpeed
    /\ p.excitement_level >= MinExcitement
    /\ p.excitement_level <= MaxExcitement

\* ------------------------------------------------- ConnectionManager
\* active_connections = {}
NoConnections == [id \in {} |-> "c1"]

\* self.active_connections[client_id] = websocket
Connect(registry, id, c) ==
    [k \in (DOMAIN registry) \cup {id} |-> IF k = id THEN c ELSE registry[k]]

\* disconnect leaving the entry where it is
DisconnectNever(registry, id) == registry

\* del self.active_connections[client_id], when the key is there
Disconnect(registry, id) ==
    [k \in (DOMAIN registry) \ {id} |-> registry[k]]

\* --------------------------------------------------------- Match State
InitScore == [home |-> 0, away |-> 0]

InitStats ==
    [possession_home |-> InitialPossession,
     possession_away |-> InitialPossession,
     shots_home |-> 0, shots_away |-> 0,
     shots_on_target_home |-> 0, shots_on_target_away |-> 0,
     corners_home |-> 0, corners_away |-> 0,
     fouls_home |-> 0, fouls_away |-> 0,
     yellow_cards_home |-> 0, yellow_cards_away |-> 0,
     red_cards_home |-> 0, red_cards_away |-> 0]

\* No MatchSimulationService exists yet.
NoSim ==
    [phase |-> "NONE", minute |-> 0, added_minutes |-> 0, added |-> 0,
     score |-> InitScore, stats |-> InitStats, event_id |-> 0]

\* MatchSimulationService.__init__
NewSim == [NoSim EXCEPT !.phase = "CREATED"]

\* event = None
NoEvent ==
    [event_id |-> 0, event_type |-> "none", minute |-> 0,
     added_time |-> Absent, team |-> NoTeam,
     score |-> InitScore, stats |-> InitStats]

\* no goal is being handled
NoGoal == [team |-> NoTeam, minute |-> 0, scorer |-> NoPlayer,
           assister |-> NoPlayer, redraws_odd |-> FALSE]

Max(a, b) == IF a >= b THEN a ELSE b
Min(a, b) == IF a <= b THEN a ELSE b

\* max(30, min(70, possession_home + shift))
Clamp(p) == Max(MinPossession, Min(MaxPossession, p))

\* _update_possession without the clamp
UpdatePossessionNoClamp(stats, shift) ==
    LET home == stats.possession_home + shift
    IN  [stats EXCEPT !.possession_home = home,
                      !.possession_away = 100 - home]

\* _update_possession
UpdatePossession(stats, shift) ==
    LET home == Clamp(stats.possession_home + shift)
    IN  [stats EXCEPT !.possession_home = home,
                      !.possession_away = 100 - home]

\* _create_event without its event_id += 1
CreateEventNoIncrement(s, event_type, minute, team, added_time, shift) ==
    LET s1 == [s EXCEPT !.stats = UpdatePossession(@, shift)]
    IN  [sim   |-> s1,
         event |-> [event_id |-> s1.event_id, event_type |-> event_type,
                    minute |-> minute, added_time |-> added_time,
                    team |-> team, score |-> s1.score, stats |-> s1.stats]]

\* _create_event: bumps the counter, shifts possession, snapshots score/stats.
CreateEvent(s, event_type, minute, team, added_time, shift) ==
    LET s1 == [s EXCEPT !.event_id = @ + 1,
                        !.stats = UpdatePossession(@, shift)]
    IN  [sim   |-> s1,
         event |-> [event_id |-> s1.event_id, event_type |-> event_type,
                    minute |-> minute, added_time |-> added_time,
                    team |-> team, score |-> s1.score, stats |-> s1.stats]]

AddScore(score, team) ==
    IF team = "home" THEN [score EXCEPT !.home = @ + 1]
                     ELSE [score EXCEPT !.away = @ + 1]

AddShot(stats, team) ==
    IF team = "home" THEN [stats EXCEPT !.shots_home = @ + 1]
                     ELSE [stats EXCEPT !.shots_away = @ + 1]

AddShotOnTarget(stats, team) ==
    IF team = "home"
    THEN [stats EXCEPT !.shots_home = @ + 1, !.shots_on_target_home = @ + 1]
    ELSE [stats EXCEPT !.shots_away = @ + 1, !.shots_on_target_away = @ + 1]

\* _handle_goal crediting the goal to the other side's score
HandleGoalOtherSide(s, minute, team, shift) ==
    CreateEvent([s EXCEPT !.score = AddScore(@, IF team = "home" THEN "away" ELSE "home"),
                          !.stats = AddShotOnTarget(@, team)],
                "goal", minute, team, Absent, shift)

\* _handle_goal
HandleGoal(s, minute, team, shift) ==
    CreateEvent([s EXCEPT !.score = AddScore(@, team),
                          !.stats = AddShotOnTarget(@, team)],
                "goal", minute, team, Absent, shift)

\* _handle_yellow_card charging the foul to the other side
HandleYellowCardFoulAcross(s, minute, team, shift) ==
    CreateEvent([s EXCEPT !.stats =
                    IF team = "home"
                    THEN [@ EXCEPT !.yellow_cards_home = @ + 1, !.fouls_away = @ + 1]
                    ELSE [@ EXCEPT !.yellow_cards_away = @ + 1, !.fouls_home = @ + 1]],
                "yellow_card", minute, team, Absent, shift)

\* _handle_yellow_card
HandleYellowCard(s, minute, team, shift) ==
    CreateEvent([s EXCEPT !.stats =
                    IF team = "home"
                    THEN [@ EXCEPT !.yellow_cards_home = @ + 1, !.fouls_home = @ + 1]
                    ELSE [@ EXCEPT !.yellow_cards_away = @ + 1, !.fouls_away = @ + 1]],
                "yellow_card", minute, team, Absent, shift)

\* _handle_red_card counting the card and not the foul
HandleRedCardNoFoul(s, minute, team, shift) ==
    CreateEvent([s EXCEPT !.stats =
                    IF team = "home" THEN [@ EXCEPT !.red_cards_home = @ + 1]
                                     ELSE [@ EXCEPT !.red_cards_away = @ + 1]],
                "red_card", minute, team, Absent, shift)

\* _handle_red_card
HandleRedCard(s, minute, team, shift) ==
    CreateEvent([s EXCEPT !.stats =
                    IF team = "home"
                    THEN [@ EXCEPT !.red_cards_home = @ + 1, !.fouls_home = @ + 1]
                    ELSE [@ EXCEPT !.red_cards_away = @ + 1, !.fouls_away = @ + 1]],
                "red_card", minute, team, Absent, shift)

\* _handle_penalty raising the score on a miss too
HandlePenaltyMissScores(s, minute, team, converted, shift) ==
    LET s0 == [s EXCEPT !.event_id = @ + 1]
    IN  IF converted
        THEN CreateEvent([s0 EXCEPT !.score = AddScore(@, team),
                                    !.stats = AddShotOnTarget(@, team)],
                         "penalty_scored", minute, team, Absent, shift)
        ELSE CreateEvent([s0 EXCEPT !.score = AddScore(@, team),
                                    !.stats = AddShot(@, team)],
                         "penalty_missed", minute, team, Absent, shift)

\* _handle_penalty counting a missed penalty as a shot on target
HandlePenaltyMissOnTarget(s, minute, team, converted, shift) ==
    LET s0 == [s EXCEPT !.event_id = @ + 1]
    IN  IF converted
        THEN CreateEvent([s0 EXCEPT !.score = AddScore(@, team),
                                    !.stats = AddShotOnTarget(@, team)],
                         "penalty_scored", minute, team, Absent, shift)
        ELSE CreateEvent([s0 EXCEPT !.stats = AddShotOnTarget(@, team)],
                         "penalty_missed", minute, team, Absent, shift)

\* _handle_penalty: its own event_id += 1, then the outcome through _create_event
HandlePenalty(s, minute, team, converted, shift) ==
    LET s0 == [s EXCEPT !.event_id = @ + 1]
    IN  IF converted
        THEN CreateEvent([s0 EXCEPT !.score = AddScore(@, team),
                                    !.stats = AddShotOnTarget(@, team)],
                         "penalty_scored", minute, team, Absent, shift)
        ELSE CreateEvent([s0 EXCEPT !.stats = AddShot(@, team)],
                         "penalty_missed", minute, team, Absent, shift)

\* _handle_shot_on_target
HandleShotOnTarget(s, minute, team, shift) ==
    CreateEvent([s EXCEPT !.stats = AddShotOnTarget(@, team)],
                "save", minute, team, Absent, shift)

\* _handle_shot_off_target
HandleShotOffTarget(s, minute, team, shift) ==
    CreateEvent([s EXCEPT !.stats = AddShot(@, team)],
                "shot_off_target", minute, team, Absent, shift)

\* _handle_corner
HandleCorner(s, minute, team, shift) ==
    CreateEvent([s EXCEPT !.stats =
                    IF team = "home" THEN [@ EXCEPT !.corners_home = @ + 1]
                                     ELSE [@ EXCEPT !.corners_away = @ + 1]],
                "corner", minute, team, Absent, shift)

\* _handle_foul
HandleFoul(s, minute, team, shift) ==
    CreateEvent([s EXCEPT !.stats =
                    IF team = "home" THEN [@ EXCEPT !.fouls_home = @ + 1]
                                     ELSE [@ EXCEPT !.fouls_away = @ + 1]],
                "foul", minute, team, Absent, shift)

\* _generate_random_event passing every drawn type on as it was drawn
GenerateRandomEventAsDrawn(s, minute, team, draw, converted, shift) ==
    CreateEvent(s, draw, minute, team, Absent, shift)

\* _generate_random_event, for a minute on which an event fires: the drawn
\* type is dispatched to its handler.
GenerateRandomEvent(s, minute, team, draw, converted, shift) ==
    CASE draw = "goal" -> HandleGoal(s, minute, team, shift)
      [] draw = "yellow_card" -> HandleYellowCard(s, minute, team, shift)
      [] draw = "red_card" -> HandleRedCard(s, minute, team, shift)
      [] draw = "penalty_awarded" -> HandlePenalty(s, minute, team, converted, shift)
      [] draw \in {"shot_on_target", "save"} -> HandleShotOnTarget(s, minute, team, shift)
      [] draw = "shot_off_target" -> HandleShotOffTarget(s, minute, team, shift)
      [] draw = "corner" -> HandleCorner(s, minute, team, shift)
      [] draw = "foul" -> HandleFoul(s, minute, team, shift)
      [] OTHER -> CreateEvent(s, draw, minute, team, Absent, shift)

\* The draws of one _generate_random_event call that fires.  The penalty
\* outcome is drawn only for a penalty.
RandomEvents(s, minute, draws, shifts) ==
    {GenerateRandomEvent(s, minute, team, draw, converted, shift) :
        team \in Sides, draw \in draws, converted \in BOOLEAN, shift \in shifts}

\* ------------------------------------------------------ wire messages
MatchStartMessage == [type |-> "match_start"]

\* The log of delivered messages keeps, of a match_event message, the id of
\* the wrapped event and its type when that is structural ("play" otherwise);
\* the whole event last delivered is final_event.
WireType(e) == IF e.event_type \in StructuralTypes THEN e.event_type ELSE "play"

MatchEventMessage(e) ==
    [type |-> "match_event", event_id |-> e.event_id, event_type |-> WireType(e)]

\* The side of man of the match, a draw going to the away side
ManOfTheMatchSideStrict(score) ==
    IF score.home > score.away THEN "home" ELSE "away"

\* "home" if simulation.score.home >= simulation.score.away else "away"
ManOfTheMatchSide(score) ==
    IF score.home >= score.away THEN "home" ELSE "away"

\* simulation._get_player(side).name: the names the model draws, the first
\* and the last player of the side's roster
ManOfTheMatchDraws(score) ==
    LET side == ManOfTheMatchSide(score)
        players == IF side = "home" THEN RICHMOND_PLAYERS ELSE AWAY_PLAYERS
    IN  {name \in GetPlayer(side) : name \in {players[1], players[Len(players)]}}

\* MatchEndMessage with the two sides of final_score exchanged
MatchEndMessageSwapped(s, name) ==
    [type |-> "match_end",
     final_score |-> [home |-> s.score.away, away |-> s.score.home],
     final_stats |-> s.stats,
     man_of_the_match |-> name]

\* MatchEndMessage built in live_match_simulation from the live score/stats
MatchEndMessage(s, name) ==
    [type |-> "match_end", final_score |-> s.score, final_stats |-> s.stats,
     man_of_the_match |-> name]

PongMessage == [type |-> "pong"]

ErrorMessage(code) == [type |-> "error", code |-> code]

\* ClientAction
ClientActions == {"ping", "pause", "resume", "set_speed", "get_status"}
NoAction == "none"

\* The texts a client sends: not JSON at all, JSON that is not an object,
\* an object without "action", and an object with each declared action.
ClientTexts ==
    {[wellformed |-> FALSE, object |-> FALSE, action |-> NoAction],
     [wellformed |-> TRUE, object |-> FALSE, action |-> NoAction],
     [wellformed |-> TRUE, object |-> TRUE, action |-> NoAction]}
    \cup {[wellformed |-> TRUE, object |-> TRUE, action |-> a] : a \in ClientActions}

NoText == [wellformed |-> FALSE, object |-> FALSE, action |-> NoAction]

\* json.loads(data) followed by message.get("action"): the exception raised,
\* or the value of the action key (NoAction for a missing key).
ParseAction(text) ==
    IF ~text.wellformed THEN "JSONDecodeError"
    ELSE IF ~text.object THEN "AttributeError"
    ELSE text.action

\* The command handling comparing the action with a name no client sends
PollReplyWrongName(text) ==
    LET parsed == ParseAction(text)
    IN  IF parsed = "JSONDecodeError" THEN "none"
        ELSE IF parsed = "AttributeError" THEN "none"
        ELSE IF parsed = "pong" THEN "pong"
        ELSE "none"

\* The command handling answering every message that names an action
PollReplyAnyAction(text) ==
    LET parsed == ParseAction(text)
    IN  IF parsed = "JSONDecodeError" THEN "none"
        ELSE IF parsed = "AttributeError" THEN "none"
        ELSE IF parsed # NoAction THEN "pong"
        ELSE "none"

\* What the command handling of the control poll answers to a received text:
\* JSONDecodeError is passed over by the inner except, any other exception by
\* the outer one, and only the ping action is answered.
PollReply(text) ==
    LET parsed == ParseAction(text)
    IN  IF parsed = "JSONDecodeError" THEN "none"
        ELSE IF parsed = "AttributeError" THEN "none"
        ELSE IF parsed = "ping" THEN "pong"
        ELSE "none"

\* number of match_event messages delivered so far
EventsSent(c) ==
    Cardinality({i \in 1..Len(outbound[c]) : outbound[c][i].type = "match_event"})

\* ------------------------------------------------------- Event Catalog
\* TED_REACTIONS (lines 50-84)
TED_REACTIONS ==
    [goal |->
        <<"Well, hot diggity dog! That's what I call putting the biscuit in the basket!",
          "*pumps both fists* NOW we're cooking with gas, y'all!",
          "That right there is what happens when you BELIEVE!",
          "*hugs Coach Beard* Did you see that?! Football IS life!",
          "Goldfish memory on the last play, but THIS one we remember forever!">>,
     yellow_card |->
        <<"*winces* Ooh, that's gonna leave a mark on the wallet.",
          "Well, that's what my mama would call a 'learning opportunity'.",
          "*turns to Beard* Is that bad? That seems bad.">>,
     red_card |->
        <<"Well... that escalated quickly.",
          "*stares in disbelief* I think we're gonna need a bigger bench.",
          "Time for someone to go think about what they've done.">>,
     save |->
        <<"WHAT A SAVE! That keeper's got hands like my Aunt Patty catching biscuits!",
          "*applauds* Now THAT is some Grade-A goalkeeping right there!">>,
     penalty_awarded |->
        <<"*nervously adjusts cap* This is fine. Everything is fine.",
          "Alright, everyone take a deep breath. And then one more. And maybe one more.">>,
     halftime |->
        <<"*gathers team* Okay fellas, time for some biscuits and wisdom!",
          "Halftime! Let's go be goldfish and forget any mistakes!">>,
     match_end |->
        <<"Win or lose, I'm proud of every single one of you!",
          "That's football, y'all! Now who wants barbecue?">>]

\* CROWD_REACTIONS (lines 86-119)
CROWD_REACTIONS ==
    [goal |->
        <<"The crowd ERUPTS! Nelson Road is absolutely bouncing!",
          "SCENES! Fans are hugging complete strangers!",
          "Listen to that roar! You can hear it three blocks away!",
          "The BELIEVE banner is waving wildly in the stands!">>,
     yellow_card |->
        <<"Boos rain down from the home supporters.",
          "The crowd voices their displeasure with the referee.">>,
     red_card |->
        <<"Absolute chaos in the stands! Half the crowd is booing, half is stunned silent.",
          "The away fans are celebrating while home supporters are furious!">>,
     save |->
        <<"A collective gasp followed by thunderous applause!",
          "The crowd rises to their feet for that save!">>,
     penalty_awarded |->
        <<"The stadium holds its collective breath...",
          "You could hear a pin drop at Nelson Road right now.">>,
     match_start |->
        <<"The Richmond faithful are in full voice as we kick off!">>,
     halftime |->
        <<"Fans head for the tea and biscuits as we reach the break.">>,
     match_end |->
        <<"The final whistle brings cheers (or groans) around the ground!",
          "Players applaud the fans as another match concludes at Nelson Road.">>]

\* COMMENTARY (lines 121-210)
COMMENTARY ==
    [match_start |->
        <<"And we're underway! The referee blows his whistle and the match begins!",
          "Here we go! 90 minutes of football ahead of us!">>,
     goal |->
        <<"GOOOOOAL! What a strike! The net is absolutely bulging!",
          "IT'S IN! Scenes of jubilation!",
          "GOAL! You won't see a better finish than that!",
          "HE'S DONE IT! What a moment!">>,
     possession_change |->
        <<"Possession changes hands as the ball is intercepted.",
          "Good defensive work there to win back the ball.",
          "A loose pass and the other side takes over.">>,
     foul |->
        <<"The referee blows for a foul. Perhaps a bit harsh there.",
          "Free kick given as the player is brought down.",
          "That's a clear foul. No complaints there.">>,
     yellow_card |->
        <<"And that's a booking! The yellow card comes out.",
          "He's been cautioned. The referee reaches for his pocket.">>,
     red_card |->
        <<"RED CARD! He's off! What drama!",
          "That's a straight red! He's seen his last action today.">>,
     penalty_awarded |->
        <<"PENALTY! The referee points to the spot!",
          "It's a penalty! This could be huge!">>,
     penalty_scored |->
        <<"SCORED! Cool as you like from the penalty spot!",
          "No chance for the keeper! Penalty converted!">>,
     penalty_missed |->
        <<"SAVED! The keeper guesses right!",
          "Over the bar! He's ballooned it!">>,
     substitution |->
        <<"A change for the team. Fresh legs coming on.",
          "Tactical substitution here from the manager.">>,
     corner |->
        <<"Corner kick coming in from the right.",
          "They've won a corner. Set piece opportunity here.">>,
     free_kick |->
        <<"Free kick in a dangerous area here.",
          "He'll fancy this free kick, just outside the box.">>,
     shot_on_target |->
        <<"Shot! But it's straight at the keeper.",
          "Good effort but the goalkeeper holds it comfortably.">>,
     shot_off_target |->
        <<"He tries his luck but it's well wide.",
          "Shot! But that's gone into row Z.">>,
     save |->
        <<"WHAT A SAVE! Incredible reflexes!",
          "The keeper comes up huge with a stunning stop!">>,
     offside |->
        <<"The flag goes up. Offside.",
          "He was just ahead of the last defender there.">>,
     halftime |->
        <<"And that's halftime! Time for team talks and tactical adjustments.",
          "The whistle goes for the break. Plenty to discuss in the dressing room.">>,
     second_half_start |->
        <<"We're back underway for the second half!",
          "The second 45 begins. Can we see a change in fortunes?">>,
     added_time |->
        <<"The board goes up. Added time to be played.",
          "Into injury time now. Every second counts!">>,
     match_end |->
        <<"And that's full time! What a match we've witnessed!",
          "The final whistle blows! It's all over!">>,
     injury |->
        <<"The physio is on the pitch. Hopefully nothing serious.",
          "Play has stopped as we have a player down.">>]

\* COMMENTARY.get(event_type, ["Action on the pitch."])
DefaultCommentary == <<"Action on the pitch.">>

\* ted_reaction = None, crowd_reaction = None
NoReaction == "none"

\* random.choice on a list: the entries the model draws, the first and the last
Choices == {"first", "last"}

Pick(list, choice) == IF choice = "first" THEN list[1] ELSE list[Len(list)]

\* The draws behind the players and texts of one event: the player, the
\* first assister (or none, random.random() <= 0.3), the coin of
\* _get_ted_reaction (random.random() > 0.3) and the three text choices.
AllPicks ==
    [player : Choices, assister : Choices \cup {"none"}, coin : BOOLEAN,
     ted : Choices, crowd : Choices, commentary : Choices]

\* The draws taken where the players are looked at and the texts are not.
CastPicks ==
    [player : Choices, assister : Choices \cup {"none"}, coin : {TRUE},
     ted : {"first"}, crowd : {"first"}, commentary : {"first"}]

\* The draws taken where players and texts are not looked at.
ControlPicks ==
    {[player |-> "first", assister |-> "none", coin |-> TRUE,
      ted |-> "first", crowd |-> "first", commentary |-> "first"]}

\* _get_commentary
GetCommentary(event_type, pick) ==
    LET templates == IF event_type \in DOMAIN COMMENTARY
                     THEN COMMENTARY[event_type] ELSE DefaultCommentary
    IN  Pick(templates, pick.commentary)

\* _get_ted_reaction
GetTedReaction(event_type, pick) ==
    IF event_type \in DOMAIN TED_REACTIONS /\ pick.coin
    THEN Pick(TED_REACTIONS[event_type], pick.ted)
    ELSE NoReaction

\* _get_crowd_reaction tossing the coin of _get_ted_reaction
GetCrowdReactionCoin(event_type, pick) ==
    IF event_type \in DOMAIN CROWD_REACTIONS /\ pick.coin
    THEN Pick(CROWD_REACTIONS[event_type], pick.crowd)
    ELSE NoReaction

\* _get_crowd_reaction
GetCrowdReaction(event_type, pick) ==
    IF event_type \in DOMAIN CROWD_REACTIONS
    THEN Pick(CROWD_REACTIONS[event_type], pick.crowd)
    ELSE NoReaction

\* random.choice(players), for the drawn position
PlayerOf(team, choice) ==
    Pick(IF team = "home" THEN RICHMOND_PLAYERS ELSE AWAY_PLAYERS, choice)

\* The assist of _handle_goal without its while loop: the first draw stands
AssistDrawsOnce(team, scorer, pick) ==
    IF pick.assister = "none" THEN {NoPlayer}
    ELSE {PlayerOf(team, pick.assister)}

\* The assist of _handle_goal: none, or the first drawn player, or, when
\* that is the scorer, whatever the while loop ends with: a drawn player
\* whose name differs from the scorer's
AssistDraws(team, scorer, pick) ==
    IF pick.assister = "none" THEN {NoPlayer}
    ELSE IF PlayerOf(team, pick.assister) # scorer
    THEN {PlayerOf(team, pick.assister)}
    ELSE {PlayerOf(team, choice) : choice \in Choices} \ {scorer}

\* no event has been yielded
NoDetail ==
    [player |-> NoPlayer, secondary_player |-> NoPlayer,
     ted_reaction |-> NoReaction, crowd_reaction |-> NoReaction,
     commentary |-> NoReaction]

\* no asyncio.sleep has been awaited
NoSleeps == [paced |-> 0, fixed |-> 0]

\* no client text has been received
NoPolls == [reads |-> 0, pings |-> 0]

\* simulate_match resuming after the yield of prev: the sleep that follows
\* the yield.  The loops sleep random.uniform(0.5, 1.5) * base_delay after an
\* event they yield and not at all on a minute without one; match_start,
\* halftime, second_half_start and added_time are followed by a fixed sleep.
\* AfterYieldUnpaced leaves the sleep of the loops out.
AfterYieldUnpaced(slept, prev) ==
    IF prev.event_type = "none" THEN slept
    ELSE IF prev.event_type \in StructuralTypes
    THEN [slept EXCEPT !.fixed = @ + 1]
    ELSE slept

AfterYield(slept, prev) ==
    IF prev.event_type = "none" THEN slept
    ELSE IF prev.event_type \in StructuralTypes
    THEN [slept EXCEPT !.fixed = @ + 1]
    ELSE [slept EXCEPT !.paced = @ + 1]

\* the goal and penalty_scored events yielded so far, counted by side
Tally(count, e) ==
    IF e.event_type \in ScoringTypes THEN AddScore(count, e.team) ELSE count

IsPing(text) == text.wellformed /\ text.object /\ text.action = "ping"

\* receive_text returned message m
Received(count, m) ==
    IF m.kind = "text"
    THEN [reads |-> count.reads + 1,
          pings |-> count.pings + (IF IsPing(m.text) THEN 1 ELSE 0)]
    ELSE count

\* ------------------------------------------------------------- Init
Init ==
    /\ pc = [c \in Clients |-> "idle"]
    /\ active_connections = NoConnections
    /\ sim = [c \in Clients |-> NoSim]
    /\ event = [c \in Clients |-> NoEvent]
    /\ final_event = [c \in Clients |-> NoEvent]
    /\ outbound = [c \in Clients |-> <<>>]
    /\ inbound = [c \in Clients |-> <<>>]
    /\ connected = [c \in Clients |-> TRUE]
    /\ client_sent = [c \in Clients |-> 0]
    /\ noticed = [c \in Clients |-> FALSE]
    /\ io_calls = [c \in Clients |-> 0]
    /\ fired = [c \in Clients |-> 0]
    /\ yielded = [c \in Clients |-> <<>>]
    /\ exit_path = [c \in Clients |-> "none"]
    /\ params = [c \in Clients |-> DefaultParams]
    /\ closed = [c \in Clients |-> FALSE]
    /\ client_id = [c \in Clients |-> NoId]
    /\ goal = [c \in Clients |-> NoGoal]
    /\ sleeps = [c \in Clients |-> NoSleeps]
    /\ polls = [c \in Clients |-> NoPolls]
    /\ detail = [c \in Clients |-> NoDetail]
    /\ goals_for = [c \in Clients |-> InitScore]

\* match_start has been delivered and a match_event is still to come
MidStream(c) ==
    /\ outbound[c] # <<>>
    /\ final_event[c].event_type # "match_end"

\* ------------------------------------------------------ the client side
\* A client message carries, beside its text, what the client could see when
\* it sent it: the match_event messages delivered so far (at), the messages
\* still unread before it (ahead), and whether the stream was under way (mid).
ClientSend(c) ==
    /\ pc[c] \notin {"idle", "done"}
    /\ connected[c]
    /\ client_sent[c] < MaxClientMsgs
    /\ \E text \in ClientTexts :
          inbound' = [inbound EXCEPT ![c] =
              Append(@, [kind |-> "text", text |-> text,
                         at |-> EventsSent(c), ahead |-> Len(inbound[c]),
                         mid |-> MidStream(c)])]
    /\ client_sent' = [client_sent EXCEPT ![c] = @ + 1]
    /\ UNCHANGED <<pc, active_connections, sim, event, final_event, outbound,
                   connected, noticed, io_calls, fired, yielded, exit_path,
                   params, closed, client_id, goal, sleeps, polls, detail,
                   goals_for>>

ClientDisconnect(c) ==
    /\ pc[c] \notin {"idle", "done"}
    /\ connected[c]
    /\ connected' = [connected EXCEPT ![c] = FALSE]
    /\ inbound' = [inbound EXCEPT ![c] =
          Append(@, [kind |-> "disconnect", text |-> NoText,
                     at |-> EventsSent(c), ahead |-> Len(inbound[c]),
                     mid |-> MidStream(c)])]
    /\ UNCHANGED <<pc, active_connections, sim, event, final_event, outbound,
                   client_sent, noticed, io_calls, fired, yielded, exit_path,
                   params, closed, client_id, goal, sleeps, polls, detail,
                   goals_for>>

\* The client opens the connection with query parameters of its choosing.
ClientRequest(c) ==
    /\ pc[c] = "idle"
    /\ params[c] = DefaultParams
    /\ \E p \in ParamChoices : params' = [params EXCEPT ![c] = p]
    /\ UNCHANGED <<pc, active_connections, sim, event, final_event, outbound,
                   inbound, connected, client_sent, noticed, io_calls, fired,
                   yielded, exit_path, closed, client_id, goal, sleeps,
                   polls, detail, goals_for>>

\* ------------------------------------------------- the session handler
\* A parameter fails its Query constraint: the framework closes the socket
\* and never calls live_match_simulation.
Reject(c) ==
    /\ pc[c] = "idle"
    /\ ~QueryValid(params[c])
    /\ pc' = [pc EXCEPT ![c] = "done"]
    /\ exit_path' = [exit_path EXCEPT ![c] = "rejected"]
    /\ closed' = [closed EXCEPT ![c] = TRUE]
    /\ UNCHANGED <<active_connections, sim, event, final_event, outbound,
                   inbound, connected, client_sent, noticed, io_calls, fired,
                   yielded, params, client_id, goal, sleeps, polls, detail,
                   goals_for>>

\* manager.connect
Accept(c, ids) ==
    /\ pc[c] = "idle"
    /\ QueryValid(params[c])
    /\ \E id \in ids :
          /\ client_id' = [client_id EXCEPT ![c] = id]
          /\ active_connections' = Connect(active_connections, id, c)
    /\ pc' = [pc EXCEPT ![c] = "start"]
    /\ UNCHANGED <<sim, event, final_event, outbound, inbound, connected,
                   client_sent, noticed, io_calls, fired, yielded, exit_path,
                   params, closed, goal, sleeps, polls, detail, goals_for>>

\* A send_json of the try body raised WebSocketDisconnect: the except clause
\* and the finally clause both call manager.disconnect, and the handler returns.
AbortOnDisconnect(c) ==
    /\ noticed' = [noticed EXCEPT ![c] = TRUE]
    /\ active_connections' = Disconnect(active_connections, client_id[c])
    /\ pc' = [pc EXCEPT ![c] = "done"]
    /\ exit_path' = [exit_path EXCEPT ![c] = "disconnect"]

\* MatchConfig raised ValidationError: the except clause sends the error
\* message and closes, outside any try; then the finally clause.
RejectConfig(c) ==
    /\ active_connections' = Disconnect(active_connections, client_id[c])
    /\ pc' = [pc EXCEPT ![c] = "done"]
    /\ IF connected[c]
       THEN /\ outbound' = [outbound EXCEPT ![c] =
                               Append(@, ErrorMessage("validation_error"))]
            /\ closed' = [closed EXCEPT ![c] = TRUE]
            /\ exit_path' = [exit_path EXCEPT ![c] = "validation_error"]
       ELSE /\ exit_path' = [exit_path EXCEPT ![c] = "raised"]
            /\ UNCHANGED <<outbound, closed>>

\* MatchConfig, MatchSimulationService(config), send of match_start
StartMatch(c) ==
    /\ pc[c] = "start"
    /\ io_calls' = [io_calls EXCEPT ![c] = @ + 1]
    /\ IF ~ConfigValid(params[c])
       THEN /\ RejectConfig(c)
            /\ UNCHANGED <<sim, noticed>>
       ELSE /\ sim' = [sim EXCEPT ![c] = NewSim]
            /\ UNCHANGED closed
            /\ IF connected[c]
               THEN /\ outbound' = [outbound EXCEPT ![c] =
                                       Append(@, MatchStartMessage)]
                    /\ pc' = [pc EXCEPT ![c] = "next"]
                    /\ UNCHANGED <<active_connections, noticed, exit_path>>
               ELSE /\ AbortOnDisconnect(c)
                    /\ UNCHANGED outbound
    /\ UNCHANGED <<event, final_event, inbound, connected, client_sent, fired,
                   yielded, params, client_id, goal, sleeps, polls, detail,
                   goals_for>>

\* The player and secondary_player a handler passes to _create_event.
\* Structural events and corners name no player; a goal names its scorer
\* and assister, taken from goal[c] where the assist was drawn step by step;
\* every other event names the drawn player alone.
Cast(c, e, pick) ==
    IF e.team = NoTeam \/ e.event_type = "corner"
    THEN {[player |-> NoPlayer, secondary_player |-> NoPlayer]}
    ELSE IF e.event_type = "goal" /\ pc[c] = "assist"
    THEN {[player |-> goal[c].scorer, secondary_player |-> goal[c].assister]}
    ELSE IF e.event_type = "goal"
    THEN {[player |-> PlayerOf(e.team, pick.player), secondary_player |-> a] :
             a \in AssistDraws(e.team, PlayerOf(e.team, pick.player), pick)}
    ELSE {[player |-> PlayerOf(e.team, pick.player),
           secondary_player |-> NoPlayer]}

\* _create_event: the players and the texts of event e, for each draw
Details(c, e, picks) ==
    UNION {{[player |-> k.player,
             secondary_player |-> k.secondary_player,
             ted_reaction |-> GetTedReaction(e.event_type, pick),
             crowd_reaction |-> GetCrowdReaction(e.event_type, pick),
             commentary |-> GetCommentary(e.event_type, pick)] :
               k \in Cast(c, e, pick)} : pick \in picks}

\* _create_event handing out the live score and stats instead of copies: the
\* event the handler still holds follows the session
YieldSharingSnapshot(c, picks, r) ==
    /\ sim' = [sim EXCEPT ![c] = r.sim]
    /\ event' = [event EXCEPT ![c] = r.event]
    /\ pc' = [pc EXCEPT ![c] = "send"]
    /\ fired' = [fired EXCEPT ![c] =
                    IF r.event.event_type \in StructuralTypes THEN @ ELSE @ + 1]
    /\ yielded' = [yielded EXCEPT ![c] =
                      Append(@, [event_id |-> r.event.event_id,
                                 event_type |-> WireType(r.event)])]
    /\ sleeps' = [sleeps EXCEPT ![c] = AfterYield(@, event[c])]
    /\ goals_for' = [goals_for EXCEPT ![c] = Tally(@, r.event)]
    /\ \E d \in Details(c, r.event, picks) :
          detail' = [detail EXCEPT ![c] = d]
    /\ final_event' = [final_event EXCEPT ![c] =
                          IF @ = NoEvent THEN @
                          ELSE [@ EXCEPT !.score = r.sim.score,
                                         !.stats = r.sim.stats]]
    /\ UNCHANGED <<active_connections, outbound, inbound,
                   connected, client_sent, noticed, io_calls, exit_path,
                   params, closed, client_id, goal, polls>>

\* The generator hands the handler its next event.
Yield(c, picks, r) ==
    /\ sim' = [sim EXCEPT ![c] = r.sim]
    /\ event' = [event EXCEPT ![c] = r.event]
    /\ pc' = [pc EXCEPT ![c] = "send"]
    /\ fired' = [fired EXCEPT ![c] =
                    IF r.event.event_type \in StructuralTypes THEN @ ELSE @ + 1]
    /\ yielded' = [yielded EXCEPT ![c] =
                      Append(@, [event_id |-> r.event.event_id,
                                 event_type |-> WireType(r.event)])]
    /\ sleeps' = [sleeps EXCEPT ![c] = AfterYield(@, event[c])]
    /\ goals_for' = [goals_for EXCEPT ![c] = Tally(@, r.event)]
    /\ \E d \in Details(c, r.event, picks) :
          detail' = [detail EXCEPT ![c] = d]
    /\ UNCHANGED <<active_connections, final_event, outbound, inbound,
                   connected, client_sent, noticed, io_calls, exit_path,
                   params, closed, client_id, goal, polls>>

\* simulate_match: the match_start event
Kickoff(c, shifts, picks) ==
    /\ pc[c] = "next"
    /\ sim[c].phase = "CREATED"
    /\ \E shift \in shifts :
          Yield(c, picks, LET r == CreateEvent(sim[c], "match_start", KickoffMinute,
                                        NoTeam, Absent, shift)
                   IN  [r EXCEPT !.sim.phase = "KICKOFF",
                                 !.sim.minute = KickoffMinute])

\* The first-half loop asking the Event Generator again for the minute it is at
FirstHalfEventSameMinute(c, draws, shifts, budget, picks) ==
    /\ pc[c] = "next"
    /\ fired[c] < budget
    /\ sim[c].phase \in {"KICKOFF", "FIRST_HALF"}
    /\ \E minute \in FirstHalfMinutes :
          /\ minute >= sim[c].minute
          /\ \E r \in RandomEvents(sim[c], minute, draws, shifts) :
                Yield(c, picks, [r EXCEPT !.sim.phase = "FIRST_HALF",
                                   !.sim.minute = minute])

\* simulate_match: the first-half loop runs on to the next minute that fires
FirstHalfEvent(c, draws, shifts, budget, picks) ==
    /\ pc[c] = "next"
    /\ fired[c] < budget
    /\ sim[c].phase \in {"KICKOFF", "FIRST_HALF"}
    /\ \E minute \in FirstHalfMinutes :
          /\ minute > sim[c].minute
          /\ \E r \in RandomEvents(sim[c], minute, draws, shifts) :
                Yield(c, picks, [r EXCEPT !.sim.phase = "FIRST_HALF",
                                   !.sim.minute = minute])

\* _handle_goal up to its assist: score and counters are raised, and with
\* random.random() > 0.3 a first assister is drawn.  The first-half loop of
\* simulate_match has run on to a minute that fires with a goal.
GoalStruck(c) ==
    /\ pc[c] = "next"
    /\ fired[c] < MaxRandomEvents
    /\ sim[c].phase \in {"KICKOFF", "FIRST_HALF"}
    /\ \E minute \in FirstHalfMinutes, team \in Sides :
          /\ minute > sim[c].minute
          /\ sim' = [sim EXCEPT ![c] =
                        [@ EXCEPT !.score = AddScore(@, team),
                                  !.stats = AddShotOnTarget(@, team),
                                  !.phase = "FIRST_HALF",
                                  !.minute = minute]]
          /\ \E scorer \in GetPlayer(team),
                assister \in GetPlayer(team) \cup {NoPlayer} :
                goal' = [goal EXCEPT ![c] =
                            [team |-> team, minute |-> minute, scorer |-> scorer,
                             assister |-> assister, redraws_odd |-> FALSE]]
    /\ pc' = [pc EXCEPT ![c] = "assist"]
    /\ UNCHANGED <<active_connections, event, final_event, outbound, inbound,
                   connected, client_sent, noticed, io_calls, fired, yielded,
                   exit_path, params, closed, client_id, sleeps, polls,
                   detail, goals_for>>

\* _handle_goal: while assister.name == scorer.name, draw again
AssistRetry(c) ==
    /\ pc[c] = "assist"
    /\ goal[c].assister = goal[c].scorer
    /\ \E assister \in GetPlayer(goal[c].team) :
          goal' = [goal EXCEPT ![c].assister = assister,
                               ![c].redraws_odd = ~@]
    /\ UNCHANGED <<pc, active_connections, sim, event, final_event, outbound,
                   inbound, connected, client_sent, noticed, io_calls, fired,
                   yielded, exit_path, params, closed, client_id, sleeps,
                   polls, detail, goals_for>>

\* the draw of AssistRetry that ends the loop
AssistRedrawOther(c) ==
    /\ AssistRetry(c)
    /\ goal'[c].assister # goal[c].scorer

\* _handle_goal keeping the first assister it drew, without the while loop
AssistDoneFirstDraw(c, shifts, picks) ==
    /\ pc[c] = "assist"
    /\ \E shift \in shifts :
          Yield(c, picks, CreateEvent(sim[c], "goal", goal[c].minute,
                                      goal[c].team, Absent, shift))

\* _handle_goal after the assist: the goal event through _create_event
AssistDone(c, shifts, picks) ==
    /\ pc[c] = "assist"
    /\ goal[c].assister # goal[c].scorer
    /\ \E shift \in shifts :
          Yield(c, picks, CreateEvent(sim[c], "goal", goal[c].minute, goal[c].team,
                               Absent, shift))

\* simulate_match: no further first-half minute fires; the halftime event
Halftime(c, shifts, picks) ==
    /\ pc[c] = "next"
    /\ sim[c].phase \in {"KICKOFF", "FIRST_HALF"}
    /\ \E shift \in shifts :
          Yield(c, picks, LET r == CreateEvent(sim[c], "halftime", FirstHalfLast,
                                        NoTeam, Absent, shift)
                   IN  [r EXCEPT !.sim.phase = "HALFTIME",
                                 !.sim.minute = FirstHalfLast])

\* The second_half_start event stamped with the first minute of the second half
SecondHalfStartNextMinute(c, shifts, picks) ==
    /\ pc[c] = "next"
    /\ sim[c].phase = "HALFTIME"
    /\ \E shift \in shifts :
          Yield(c, picks, LET r == CreateEvent(sim[c], "second_half_start",
                                        FirstHalfLast + 1, NoTeam, Absent, shift)
                   IN  [r EXCEPT !.sim.phase = "SECOND_HALF_START"])

\* simulate_match: the second_half_start event
SecondHalfStart(c, shifts, picks) ==
    /\ pc[c] = "next"
    /\ sim[c].phase = "HALFTIME"
    /\ \E shift \in shifts :
          Yield(c, picks, LET r == CreateEvent(sim[c], "second_half_start", FirstHalfLast,
                                        NoTeam, Absent, shift)
                   IN  [r EXCEPT !.sim.phase = "SECOND_HALF_START"])

\* simulate_match: the second-half loop runs on to the next minute that fires
SecondHalfEvent(c, draws, shifts, budget, picks) ==
    /\ pc[c] = "next"
    /\ fired[c] < budget
    /\ sim[c].phase \in {"SECOND_HALF_START", "SECOND_HALF"}
    /\ \E minute \in SecondHalfMinutes :
          /\ minute > sim[c].minute
          /\ \E r \in RandomEvents(sim[c], minute, draws, shifts) :
                Yield(c, picks, [r EXCEPT !.sim.phase = "SECOND_HALF",
                                   !.sim.minute = minute])

\* simulate_match: no further second-half minute fires; added_minutes is
\* drawn and the added_time announcement is yielded
AddedTime(c, shifts, picks) ==
    /\ pc[c] = "next"
    /\ sim[c].phase \in {"SECOND_HALF_START", "SECOND_HALF"}
    /\ \E added_minutes \in AddedMinutesChoices, shift \in shifts :
          Yield(c, picks, LET r == CreateEvent(sim[c], "added_time", SecondHalfLast,
                                        NoTeam, Absent, shift)
                   IN  [r EXCEPT !.sim.phase = "ADDED_TIME",
                                 !.sim.minute = SecondHalfLast,
                                 !.sim.added_minutes = added_minutes,
                                 !.sim.added = 0])

\* The added-time loop leaving added_time of its events unset
AddedTimeEventUnstamped(c, draws, shifts, budget, picks) ==
    /\ pc[c] = "next"
    /\ fired[c] < budget
    /\ sim[c].phase = "ADDED_TIME"
    /\ \E added \in 1..sim[c].added_minutes :
          /\ added \in AddedTicks
          /\ added > sim[c].added
          /\ \E r \in RandomEvents(sim[c], SecondHalfLast, draws, shifts) :
                Yield(c, picks, [r EXCEPT !.sim.added = added])

\* simulate_match: the added-time loop; the event gets added_time = added
AddedTimeEvent(c, draws, shifts, budget, picks) ==
    /\ pc[c] = "next"
    /\ fired[c] < budget
    /\ sim[c].phase = "ADDED_TIME"
    /\ \E added \in 1..sim[c].added_minutes :
          /\ added \in AddedTicks
          /\ added > sim[c].added
          /\ \E r \in RandomEvents(sim[c], SecondHalfLast, draws, shifts) :
                Yield(c, picks, [r EXCEPT !.sim.added = added,
                                   !.event.added_time = added])

\* The final whistle yielded as a second added_time announcement
FullTimeAsAddedTime(c, shifts, picks) ==
    /\ pc[c] = "next"
    /\ sim[c].phase = "ADDED_TIME"
    /\ \E shift \in shifts :
          Yield(c, picks, LET r == CreateEvent(sim[c], "added_time", SecondHalfLast,
                                        NoTeam, sim[c].added_minutes, shift)
                   IN  [r EXCEPT !.sim.phase = "FULL_TIME"])

\* simulate_match: the final whistle
FullTime(c, shifts, picks) ==
    /\ pc[c] = "next"
    /\ sim[c].phase = "ADDED_TIME"
    /\ \E shift \in shifts :
          Yield(c, picks, LET r == CreateEvent(sim[c], "match_end", SecondHalfLast,
                                        NoTeam, sim[c].added_minutes, shift)
                   IN  [r EXCEPT !.sim.phase = "FULL_TIME"])

\* simulate_match shifting possession once more after the final whistle
ExhaustedShiftsPossession(c) ==
    /\ pc[c] = "next"
    /\ sim[c].phase = "FULL_TIME"
    /\ pc' = [pc EXCEPT ![c] = "end"]
    /\ sim' = [sim EXCEPT ![c].stats = UpdatePossession(@, MaxShift)]
    /\ UNCHANGED <<active_connections, event, final_event, outbound,
                   inbound, connected, client_sent, noticed, io_calls, fired,
                   yielded, exit_path, params, closed, client_id, goal,
                   sleeps, polls, detail, goals_for>>

\* simulate_match returns: the async for loop ends
Exhausted(c) ==
    /\ pc[c] = "next"
    /\ sim[c].phase = "FULL_TIME"
    /\ pc' = [pc EXCEPT ![c] = "end"]
    /\ UNCHANGED <<active_connections, sim, event, final_event, outbound,
                   inbound, connected, client_sent, noticed, io_calls, fired,
                   yielded, exit_path, params, closed, client_id, goal,
                   sleeps, polls, detail, goals_for>>

\* send of the match_event message, then final_event = event
SendEvent(c) ==
    /\ pc[c] = "send"
    /\ io_calls' = [io_calls EXCEPT ![c] = @ + 1]
    /\ IF connected[c]
       THEN /\ outbound' = [outbound EXCEPT ![c] =
                               Append(@, MatchEventMessage(event[c]))]
            /\ final_event' = [final_event EXCEPT ![c] = event[c]]
            /\ pc' = [pc EXCEPT ![c] = "poll"]
            /\ UNCHANGED <<active_connections, noticed, exit_path>>
       ELSE /\ AbortOnDisconnect(c)
            /\ UNCHANGED <<outbound, final_event>>
    /\ UNCHANGED <<sim, event, inbound, connected, client_sent, fired, yielded,
                   params, closed, client_id, goal, sleeps, polls, detail,
                   goals_for>>

\* The control poll waiting for a client message without a timeout
PollBlocking(c) ==
    /\ pc[c] = "poll"
    /\ inbound[c] # <<>>
    /\ pc' = [pc EXCEPT ![c] = "next"]
    /\ inbound' = [inbound EXCEPT ![c] = Tail(@)]
    /\ polls' = [polls EXCEPT ![c] = Received(@, Head(inbound[c]))]
    /\ io_calls' = [io_calls EXCEPT ![c] = @ + 1]
    /\ UNCHANGED <<active_connections, sim, event, final_event, outbound, connected,
                   client_sent, noticed, fired, yielded, exit_path, params, closed,
                   client_id, goal, sleeps, detail, goals_for>>

IsPingMessage(m) == m.kind = "text" /\ IsPing(m.text)

\* The control poll reading every message that waits, not one
PollAll(c) ==
    /\ pc[c] = "poll"
    /\ pc' = [pc EXCEPT ![c] = "next"]
    /\ inbound' = [inbound EXCEPT ![c] = <<>>]
    /\ io_calls' = [io_calls EXCEPT ![c] = @ + 1]
    /\ LET pings == SelectSeq(inbound[c], IsPingMessage)
           texts == {i \in 1..Len(inbound[c]) : inbound[c][i].kind = "text"}
       IN  /\ polls' = [polls EXCEPT ![c] =
                           [reads |-> @.reads + Cardinality(texts),
                            pings |-> @.pings + Len(pings)]]
           /\ outbound' = [outbound EXCEPT ![c] =
                              IF connected[c]
                              THEN @ \o [i \in 1..Len(pings) |-> PongMessage]
                              ELSE @]
    /\ noticed' = [noticed EXCEPT ![c] = @ \/ ~connected[c]]
    /\ UNCHANGED <<active_connections, sim, event, final_event, connected,
                   client_sent, fired, yielded, exit_path, params, closed,
                   client_id, goal, sleeps, detail, goals_for>>

\* The control poll: wait_for(receive_text(), 0.01) and the command handling.
\* Every exception of the poll, WebSocketDisconnect included, is passed over
\* by the except clauses around it, and the loop goes on.
Poll(c) ==
    /\ pc[c] = "poll"
    /\ pc' = [pc EXCEPT ![c] = "next"]
    /\ IF inbound[c] = <<>>
       THEN \* asyncio.TimeoutError
            /\ io_calls' = [io_calls EXCEPT ![c] = @ + 1]
            /\ UNCHANGED <<inbound, outbound, noticed, polls>>
       ELSE LET m == Head(inbound[c])
            IN  /\ inbound' = [inbound EXCEPT ![c] = Tail(@)]
                /\ polls' = [polls EXCEPT ![c] = Received(@, m)]
                /\ IF m.kind = "disconnect"
                   THEN \* receive_text raises WebSocketDisconnect
                        /\ noticed' = [noticed EXCEPT ![c] = TRUE]
                        /\ io_calls' = [io_calls EXCEPT ![c] = @ + 1]
                        /\ UNCHANGED outbound
                   ELSE IF PollReply(m.text) = "pong"
                   THEN /\ io_calls' = [io_calls EXCEPT ![c] = @ + 2]
                        /\ IF connected[c]
                           THEN /\ outbound' = [outbound EXCEPT ![c] =
                                                   Append(@, PongMessage)]
                                /\ UNCHANGED noticed
                           ELSE /\ noticed' = [noticed EXCEPT ![c] = TRUE]
                                /\ UNCHANGED outbound
                   ELSE /\ io_calls' = [io_calls EXCEPT ![c] = @ + 1]
                        /\ UNCHANGED <<outbound, noticed>>
    /\ UNCHANGED <<active_connections, sim, event, final_event, connected,
                   client_sent, fired, yielded, exit_path, params, closed,
                   client_id, goal, sleeps, detail, goals_for>>

\* After the loop: the match_end message when final_event is set, then the
\* finally clause.
SendEnd(c) ==
    /\ pc[c] = "end"
    /\ IF final_event[c] = NoEvent
       THEN /\ pc' = [pc EXCEPT ![c] = "done"]
            /\ exit_path' = [exit_path EXCEPT ![c] = "normal"]
            /\ active_connections' = Disconnect(active_connections, client_id[c])
            /\ UNCHANGED <<outbound, noticed, io_calls>>
       ELSE /\ io_calls' = [io_calls EXCEPT ![c] = @ + 1]
            /\ IF connected[c]
               THEN /\ \E name \in ManOfTheMatchDraws(sim[c].score) :
                          outbound' = [outbound EXCEPT ![c] =
                                          Append(@, MatchEndMessage(sim[c], name))]
                    /\ pc' = [pc EXCEPT ![c] = "done"]
                    /\ exit_path' = [exit_path EXCEPT ![c] = "normal"]
                    /\ active_connections' = Disconnect(active_connections, client_id[c])
                    /\ UNCHANGED noticed
               ELSE /\ AbortOnDisconnect(c)
                    /\ UNCHANGED outbound
    /\ UNCHANGED <<sim, event, final_event, inbound, connected, client_sent, fired,
                   yielded, params, closed, client_id, goal, sleeps, polls,
                   detail, goals_for>>

\* ---------------------------------------------------- the /ws/test handler
WelcomeMessage == [type |-> "welcome"]

\* The echo message with a fixed text in its message field
EchoMessageFixed(text) == [type |-> "echo", message |-> NoText]

EchoMessage(text) == [type |-> "echo", message |-> text]

\* websocket_test: accept and the welcome message
EchoAccept(c) ==
    /\ pc[c] = "idle"
    /\ pc' = [pc EXCEPT ![c] = "echo"]
    /\ outbound' = [outbound EXCEPT ![c] = Append(@, WelcomeMessage)]
    /\ io_calls' = [io_calls EXCEPT ![c] = @ + 1]
    /\ UNCHANGED <<active_connections, sim, event, final_event, inbound,
                   connected, client_sent, noticed, fired, yielded, exit_path,
                   params, closed, client_id, goal, sleeps, polls, detail,
                   goals_for>>

\* websocket_test: one turn of the loop.  receive_text waits for a message;
\* the text is sent back, and WebSocketDisconnect ends the handler.
EchoReceive(c) ==
    /\ pc[c] = "echo"
    /\ inbound[c] # <<>>
    /\ inbound' = [inbound EXCEPT ![c] = Tail(@)]
    /\ LET m == Head(inbound[c])
       IN  IF m.kind = "text" /\ connected[c]
           THEN /\ outbound' = [outbound EXCEPT ![c] =
                                   Append(@, EchoMessage(m.text))]
                /\ io_calls' = [io_calls EXCEPT ![c] = @ + 2]
                /\ UNCHANGED <<pc, noticed, exit_path>>
           ELSE /\ noticed' = [noticed EXCEPT ![c] = TRUE]
                /\ pc' = [pc EXCEPT ![c] = "done"]
                /\ exit_path' = [exit_path EXCEPT ![c] = "disconnect"]
                /\ io_calls' = [io_calls EXCEPT ![c] =
                                   IF m.kind = "text" THEN @ + 2 ELSE @ + 1]
                /\ UNCHANGED outbound
    /\ UNCHANGED <<active_connections, sim, event, final_event, connected,
                   client_sent, fired, yielded, params, closed, client_id,
                   goal, sleeps, polls, detail, goals_for>>

\* The try body raised an exception that is neither WebSocketDisconnect nor
\* ValidationError: the handler sends an internal_error message and closes,
\* a failure of either call is passed over, and the finally clause runs.
\* FaultKeepsStreaming is this clause returning into the try body.
FaultKeepsStreaming(c) ==
    /\ pc[c] \in {"start", "next", "send", "end"}
    /\ io_calls' = [io_calls EXCEPT ![c] = @ + 1]
    /\ exit_path' = [exit_path EXCEPT ![c] = "internal_error"]
    /\ \E sent \in BOOLEAN, shut \in BOOLEAN :
          /\ sent => connected[c]
          /\ outbound' = [outbound EXCEPT ![c] =
                IF sent THEN Append(@, ErrorMessage("internal_error")) ELSE @]
          /\ closed' = [closed EXCEPT ![c] = sent /\ shut]
    /\ UNCHANGED <<pc, active_connections, sim, event, final_event, inbound,
                   connected, client_sent, noticed, fired, yielded, params,
                   client_id, goal, sleeps, polls, detail, goals_for>>

Fault(c) ==
    /\ pc[c] \in {"start", "next", "send", "end"}
    /\ io_calls' = [io_calls EXCEPT ![c] = @ + 1]
    /\ active_connections' = Disconnect(active_connections, client_id[c])
    /\ pc' = [pc EXCEPT ![c] = "done"]
    /\ exit_path' = [exit_path EXCEPT ![c] = "internal_error"]
    /\ \E sent \in BOOLEAN, shut \in BOOLEAN :
          /\ sent => connected[c]
          /\ outbound' = [outbound EXCEPT ![c] =
                IF sent THEN Append(@, ErrorMessage("internal_error")) ELSE @]
          /\ closed' = [closed EXCEPT ![c] = sent /\ shut]
    /\ UNCHANGED <<sim, event, final_event, inbound, connected, client_sent,
                   noticed, fired, yielded, params, client_id, goal, sleeps,
                   polls, detail, goals_for>>

\* One __anext__ of simulate_match, its random draws taken from draws/shifts.
Generator(c, draws, shifts, budget, picks) ==
    \/ Kickoff(c, shifts, picks)
    \/ FirstHalfEvent(c, draws, shifts, budget, picks)
    \/ Halftime(c, shifts, picks)
    \/ SecondHalfStart(c, shifts, picks)
    \/ SecondHalfEvent(c, draws, shifts, budget, picks)
    \/ AddedTime(c, shifts, picks)
    \/ AddedTimeEvent(c, draws, shifts, budget, picks)
    \/ FullTime(c, shifts, picks)
    \/ Exhausted(c)

Handler(c) ==
    \/ Accept(c, SoloIds)
    \/ StartMatch(c)
    \/ SendEvent(c)
    \/ Poll(c)
    \/ SendEnd(c)

\* The event stream: every draw of the generator, delivered to a client that
\* listens.
Next ==
    \E c \in Solo :
        \/ Handler(c)
        \/ Generator(c, DrawTypes, Shifts, MaxRandomEvents, ControlPicks)

Spec == Init /\ [][Next]_vars

\* The timing of the stream: several minutes of a half fire.
NextClock ==
    \E c \in Solo :
        \/ Handler(c)
        \/ Generator(c, ClockDraws, ControlShifts, MaxClockEvents,
                    ControlPicks)

SpecClock == Init /\ [][NextClock]_vars

\* simulate_match as the control protocol sees it: random events fire in the
\* first half only, drawn from ControlDraws, with no possession shift.
ControlGenerator(c) ==
    \/ Kickoff(c, ControlShifts, ControlPicks)
    \/ FirstHalfEvent(c, ControlDraws, ControlShifts, MaxRandomEvents,
                      ControlPicks)
    \/ Halftime(c, ControlShifts, ControlPicks)
    \/ SecondHalfStart(c, ControlShifts, ControlPicks)
    \/ AddedTime(c, ControlShifts, ControlPicks)
    \/ FullTime(c, ControlShifts, ControlPicks)
    \/ Exhausted(c)

\* The control protocol: a client that sends texts and may disconnect at any
\* moment of the session.
NextControl ==
    \E c \in Solo :
        \/ Handler(c)
        \/ ControlGenerator(c)
        \/ ClientSend(c)
        \/ ClientDisconnect(c)

SpecControl == Init /\ [][NextControl]_vars

\* simulate_match with the assist loop of _handle_goal taken draw by draw;
\* goals fall in the first half.
LiveGenerator(c) ==
    \/ Kickoff(c, ControlShifts, ControlPicks)
    \/ GoalStruck(c)
    \/ AssistRetry(c)
    \/ AssistDone(c, ControlShifts, ControlPicks)
    \/ Halftime(c, ControlShifts, ControlPicks)
    \/ SecondHalfStart(c, ControlShifts, ControlPicks)
    \/ AddedTime(c, ControlShifts, ControlPicks)
    \/ FullTime(c, ControlShifts, ControlPicks)
    \/ Exhausted(c)

NextLive ==
    \E c \in Solo :
        \/ Handler(c)
        \/ LiveGenerator(c)

\* The event loop resumes the handler after every await: the sleeps of
\* simulate_match are finite, the control poll gives up after 10 ms, and a
\* send to a connected client returns.  random.choice draws every player of
\* a roster again and again, so the draw that ends the assist loop is taken.
SpecLive ==
    /\ Init
    /\ [][NextLive]_vars
    /\ \A c \in Solo :
          /\ WF_vars(Handler(c))
          /\ WF_vars(LiveGenerator(c))
          /\ WF_vars(AssistRedrawOther(c))

\* Two sessions open at the same time, each with its own draw of client_id.
PairHandler(c) ==
    \/ Accept(c, UuidPrefixes)
    \/ StartMatch(c)
    \/ SendEvent(c)
    \/ Poll(c)
    \/ SendEnd(c)

NextPair ==
    \E c \in Clients :
        \/ PairHandler(c)
        \/ ControlGenerator(c)
        \/ ClientDisconnect(c)

SpecPair == Init /\ [][NextPair]_vars

\* The /ws/test endpoint and a client that sends texts and disconnects.
NextEcho ==
    \E c \in Solo :
        \/ EchoAccept(c)
        \/ EchoReceive(c)
        \/ ClientSend(c)
        \/ ClientDisconnect(c)

SpecEcho == Init /\ [][NextEcho]_vars

\* Connection set-up and failure: a client that names its parameters, and a
\* try body that may raise at any of its steps.
NextConnect ==
    \E c \in Solo :
        \/ ClientRequest(c)
        \/ Reject(c)
        \/ Handler(c)
        \/ ControlGenerator(c)
        \/ Fault(c)

SpecConnect == Init /\ [][NextConnect]_vars

\* Match State under every draw of the Event Generator: score and counters,
\* with no possession shift.
NextStats ==
    \E c \in Solo :
        \/ Handler(c)
        \/ Generator(c, DrawTypes, ControlShifts, MaxStatEvents, ControlPicks)

SpecStats == Init /\ [][NextStats]_vars

\* The players of the events: every draw of the Event Generator, and the
\* goal of the first half also taken draw by draw through its assist loop.
NextCast ==
    \E c \in Solo :
        \/ Handler(c)
        \/ Generator(c, DrawTypes, ControlShifts, MaxRandomEvents, CastPicks)
        \/ GoalStruck(c)
        \/ AssistRetry(c)
        \/ AssistDone(c, ControlShifts, CastPicks)

SpecCast == Init /\ [][NextCast]_vars

\* Every draw of the Event Generator with the players and the texts that
\* _create_event attaches to the event.
NextDetail ==
    \E c \in Solo :
        \/ Handler(c)
        \/ Generator(c, DrawTypes, ControlShifts, MaxRandomEvents, AllPicks)

SpecDetail == Init /\ [][NextDetail]_vars

\* simulate_match on a match in which no minute fires
QuietGenerator(c) ==
    \/ Kickoff(c, ControlShifts, ControlPicks)
    \/ Halftime(c, ControlShifts, ControlPicks)
    \/ SecondHalfStart(c, ControlShifts, ControlPicks)
    \/ AddedTime(c, ControlShifts, ControlPicks)
    \/ FullTime(c, ControlShifts, ControlPicks)
    \/ Exhausted(c)

\* Every way out of the handler, with two sessions open at the same time:
\* the stream runs to its end, the client disconnects, or the try body raises.
NextExit ==
    \E c \in Clients :
        \/ PairHandler(c)
        \/ QuietGenerator(c)
        \/ ClientDisconnect(c)
        \/ Fault(c)

SpecExit == Init /\ [][NextExit]_vars

\* ================================================================ claims
EventIds(c) == [i \in 1..Len(yielded[c]) |-> yielded[c][i].event_id]

IsMatchEvent(m) == m.type = "match_event"

\* the ids of the events wrapped by the delivered match_event messages
SentIds(c) ==
    LET evs == SelectSeq(outbound[c], IsMatchEvent)
    IN  [i \in 1..Len(evs) |-> evs[i].event_id]

HasPong(c) == \E i \in 1..Len(outbound[c]) : outbound[c][i].type = "pong"

\* C1: a session that runs to completion has delivered exactly one
\* match_start, first; then one match_event per yielded event, in yield
\* order (pongs may lie between them); then exactly one match_end, last;
\* and final_score of match_end is the score of the last match_event.
C1_MessageSequence ==
    \A c \in Clients :
        LET out == outbound[c]
            n == Len(out)
        IN  /\ \A i \in 1..n : out[i].type = "match_start" <=> i = 1
            /\ \A i \in 1..n : out[i].type = "match_end" => i = n
            /\ \A i \in 1..n : out[i].type = "match_end" => exit_path[c] = "normal"
            /\ exit_path[c] = "normal" =>
                  /\ n >= 3
                  /\ out[n].type = "match_end"
                  /\ \A i \in 2..(n - 1) : out[i].type \in {"match_event", "pong"}
                  /\ out[n - 1].type \in {"match_event", "pong"}
                  /\ SentIds(c) = EventIds(c)
                  /\ final_event[c].event_id = EventIds(c)[Len(EventIds(c))]
                  /\ out[n].final_score = final_event[c].score

C1_Witness ==
    /\ exit_path["c1"] = "normal"
    /\ HasPong("c1")
    /\ final_event["c1"].score.home > final_event["c1"].score.away
    /\ Len(outbound["c1"]) >= 8

\* C2: the first yielded event has event_id 1 and the event_ids of
\* successive yielded events are strictly increasing.
C2_EventIdIncreasing ==
    \A c \in Clients :
        LET ids == EventIds(c)
        IN  /\ Len(ids) >= 1 => ids[1] = 1
            /\ \A i \in 1..(Len(ids) - 1) : ids[i] < ids[i + 1]

C2_Witness ==
    /\ sim["c1"].phase = "FULL_TIME"
    /\ Len(yielded["c1"]) = 5 + MaxRandomEvents

\* C3: event_id has no gaps: the k-th yielded event has event_id k.
C3_EventIdNoGaps ==
    \A c \in Clients :
        \A i \in 1..Len(yielded[c]) : yielded[c][i].event_id = i

NewEvent(c) == event'[c].event_id # event[c].event_id

\* C4: from one yielded event to the next neither side's score decreases,
\* and a goal or penalty_scored event shows the side named in its team field
\* exactly 1 higher than the preceding snapshot and the other side unchanged.
C4_ScoreSteps ==
    [][\A c \in Clients :
          NewEvent(c) =>
             LET before == event[c].score
                 after == event'[c].score
                 team == event'[c].team
             IN  /\ after.home >= before.home
                 /\ after.away >= before.away
                 /\ event'[c].event_type \in ScoringTypes =>
                       /\ team \in Sides
                       /\ after.home = before.home + (IF team = "home" THEN 1 ELSE 0)
                       /\ after.away = before.away + (IF team = "away" THEN 1 ELSE 0)]_vars

C4_Witness ==
    /\ event["c1"].event_type = "penalty_scored"
    /\ event["c1"].team = "away"
    /\ event["c1"].score = [home |-> 0, away |-> 1]
    /\ event["c1"].minute = SecondHalfLast

\* C5: an event that is neither goal nor penalty_scored carries the score
\* snapshot of the event yielded before it (0-0 for the first event).
C5_OtherTypesKeepScore ==
    [][\A c \in Clients :
          (NewEvent(c) /\ event'[c].event_type \notin ScoringTypes) =>
             event'[c].score = event[c].score]_vars

C5_Witness ==
    /\ event["c1"].event_type = "match_end"
    /\ event["c1"].score = [home |-> 1, away |-> 0]
    /\ \E i \in 1..Len(yielded["c1"]) :
          yielded["c1"][i].event_id # i

PossessionOk(stats) ==
    /\ stats.possession_home + stats.possession_away = 100
    /\ stats.possession_home >= MinPossession
    /\ stats.possession_home <= MaxPossession
    /\ stats.possession_away >= MinPossession
    /\ stats.possession_away <= MaxPossession

\* C6: in the initial state and in every event's stats snapshot the two
\* possession values add up to 100 and lie in [30,70]; each event creation
\* moves possession_home by a shift in [-5,5], clamped to [30,70], and
\* possession_away is 100 - possession_home.
C6_Possession ==
    /\ [](\A c \in Clients :
             /\ PossessionOk(sim[c].stats)
             /\ PossessionOk(event[c].stats)
             /\ PossessionOk(final_event[c].stats))
    /\ [][\A c \in Clients :
             NewEvent(c) =>
                /\ \E d \in (-MaxShift)..MaxShift :
                      sim'[c].stats.possession_home =
                          Clamp(sim[c].stats.possession_home + d)
                /\ sim'[c].stats.possession_away =
                      100 - sim'[c].stats.possession_home
                /\ event'[c].stats = sim'[c].stats]_vars

C6_Witness ==
    /\ event["c1"].event_id = 5
    /\ event["c1"].stats.possession_home = MaxPossession
    /\ event["c1"].stats.possession_away = MinPossession

StructuralOrder ==
    <<"match_start", "halftime", "second_half_start", "added_time", "match_end">>

IsStructural(y) == y.event_type \in StructuralTypes

StructuralYielded(c) ==
    LET ys == SelectSeq(yielded[c], IsStructural)
    IN  [i \in 1..Len(ys) |-> ys[i].event_type]

\* C7: the Driver's phase never moves backward; the structural events are
\* yielded in the order match_start, halftime, second_half_start, added_time,
\* match_end, each once in a complete stream; match_start is the first
\* yielded event and match_end the last, with none after it.
C7_PhaseOrder ==
    /\ [](\A c \in Clients :
             LET st == StructuralYielded(c)
                 n == Len(yielded[c])
             IN  /\ Len(st) <= Len(StructuralOrder)
                 /\ st = SubSeq(StructuralOrder, 1, Len(st))
                 /\ n >= 1 => yielded[c][1].event_type = "match_start"
                 /\ \A i \in 1..n : yielded[c][i].event_type = "match_end" => i = n
                 /\ sim[c].phase = "FULL_TIME" <=>
                       (n >= 1 /\ yielded[c][n].event_type = "match_end")
                 /\ sim[c].phase = "FULL_TIME" => st = StructuralOrder)
    /\ [][\A c \in Clients :
             /\ PhaseRank(sim'[c].phase) >= PhaseRank(sim[c].phase)
             /\ PhaseRank(sim'[c].phase) <= PhaseRank(sim[c].phase) + 1
                \/ sim[c].phase \in {"KICKOFF", "SECOND_HALF_START"}]_vars

C7_Witness ==
    /\ pc["c1"] = "end"
    /\ sim["c1"].phase = "FULL_TIME"
    /\ Len(yielded["c1"]) > Len(StructuralOrder)

\* C8: once a client disconnect has been noticed, by a send or by the
\* control poll, the Driver generates no further event and the session makes
\* no further send or receive.
C8_AbortOnDisconnect ==
    [][\A c \in Clients :
          noticed[c] => /\ sim'[c] = sim[c]
                        /\ yielded'[c] = yielded[c]
                        /\ io_calls'[c] = io_calls[c]]_vars

\* the control poll takes the message at the head of the inbound queue
Receives(c) ==
    /\ pc[c] = "poll"
    /\ inbound[c] # <<>>
    /\ inbound'[c] = Tail(inbound[c])

ReceivesPing(c) ==
    /\ Receives(c)
    /\ Head(inbound[c]).kind = "text"
    /\ IsPing(Head(inbound[c]).text)
    /\ Head(inbound[c]).mid
    /\ connected[c]

\* C9: whatever the inbound queue holds when a ping is sent mid-stream, its
\* pong is sent after the next match_event and before the one after that.
C9_PongAfterNextEvent ==
    [][\A c \in Clients :
          ReceivesPing(c) =>
             /\ outbound'[c] = Append(outbound[c], PongMessage)
             /\ EventsSent(c) = Head(inbound[c]).at + 1]_vars

\* C9 as amended: the session reads one inbound message per match_event, so
\* a ping sent mid-stream behind q unread messages is answered by poll
\* number q + 1 after it arrives: after match_event n + q when the poll of
\* the latest match_event n is still to run, else after match_event n + q + 1.
\* With an empty queue that is directly after the latest or the next
\* match_event, and before the one after the next.
C9_PongByOwnPoll ==
    [][\A c \in Clients :
          ReceivesPing(c) =>
             LET ping == Head(inbound[c])
             IN  /\ outbound'[c] = Append(outbound[c], PongMessage)
                 /\ EventsSent(c) >= 1
                 /\ EventsSent(c) \in {ping.at + ping.ahead,
                                       ping.at + ping.ahead + 1}]_vars

\* two pings were answered, one by the poll after halftime and one by the
\* poll after the event that follows it
C9_Witness ==
    /\ exit_path["c1"] = "normal"
    /\ client_sent["c1"] = 2
    /\ \E i \in 3..Len(outbound["c1"]) - 2 :
          /\ outbound["c1"][i - 1].type = "match_event"
          /\ outbound["c1"][i - 1].event_type = "halftime"
          /\ outbound["c1"][i].type = "pong"
          /\ outbound["c1"][i + 1].type = "match_event"
          /\ outbound["c1"][i + 2].type = "pong"

C11_ValidationError ==
    \A c \in Clients :
        /\ (pc[c] = "done" /\ ~QueryValid(params[c])) =>
               /\ outbound[c] = <<ErrorMessage("validation_error")>>
               /\ closed[c]
               /\ sim[c] = NoSim
        /\ (\E i \in 1..Len(outbound[c]) :
                outbound[c][i] = ErrorMessage("validation_error")) =>
               sim[c] = NoSim

IsInternalError(m) == m = ErrorMessage("internal_error")

\* C12: a failure of the session that is neither a disconnect nor a
\* validation error makes the handler try one internal_error message and the
\* close, and return: at most one such message is ever delivered, it is the
\* last message of the session, the handler ends with its registry entry
\* removed whether or not the send and the close succeeded, and the close is
\* only reached after the message went out.
C12_InternalError ==
    /\ [](\A c \in Clients :
             LET out == outbound[c]
             IN  /\ Len(SelectSeq(out, IsInternalError)) <= 1
                 /\ \A i \in 1..Len(out) : IsInternalError(out[i]) => i = Len(out)
                 /\ exit_path[c] = "internal_error" =>
                       /\ pc[c] = "done"
                       /\ client_id[c] \notin DOMAIN active_connections
                       /\ closed[c] => (out # <<>> /\ IsInternalError(out[Len(out)])))
    /\ [][\A c \in Clients :
             /\ (exit_path[c] # "internal_error" /\ exit_path'[c] = "internal_error") =>
                   /\ outbound'[c] \in {outbound[c],
                                        Append(outbound[c], ErrorMessage("internal_error"))}
                   /\ sim'[c] = sim[c]
                   /\ pc'[c] = "done"
             /\ pc[c] = "done" => (pc'[c] = "done" /\ outbound'[c] = outbound[c])]_vars

\* a failure in mid-stream was reported and the connection closed
C12_Witness ==
    /\ exit_path["c1"] = "internal_error"
    /\ closed["c1"]
    /\ Len(outbound["c1"]) >= 4
    /\ IsInternalError(outbound["c1"][Len(outbound["c1"])])
    /\ sim["c1"].phase = "HALFTIME"

\* C13: with a legal configuration, a client that stays connected and sends
\* nothing, and sends that succeed, the session terminates: the stream is
\* finite, the assist loop of a goal is left, the control poll times out,
\* and the match_end message is the last one delivered.
C13_Terminates ==
    <>(/\ pc["c1"] = "done"
       /\ exit_path["c1"] = "normal"
       /\ sim["c1"].phase = "FULL_TIME"
       /\ outbound["c1"] # <<>>
       /\ outbound["c1"][Len(outbound["c1"])].type = "match_end")

\* a session ran to its end after a goal whose assist had to be drawn again
C13_Witness ==
    /\ pc["c1"] = "done"
    /\ exit_path["c1"] = "normal"
    /\ goal["c1"].redraws_odd
    /\ goal["c1"].assister # NoPlayer
    /\ goal["c1"].assister # goal["c1"].scorer
    /\ outbound["c1"][Len(outbound["c1"])].type = "match_end"

\* what belongs to the session of connection c
Session(c) ==
    <<pc[c], sim[c], event[c], final_event[c], outbound[c], inbound[c],
      connected[c], noticed[c], yielded[c], exit_path[c], client_id[c]>>

\* the registry holds the entry that the session of c put there
Registered(c) ==
    /\ client_id[c] \in DOMAIN active_connections
    /\ active_connections[client_id[c]] = c

\* C14: with two sessions open, each Driver starts from event counter 0 and
\* score 0-0, and a step of one session changes neither the other session's
\* score, stats, event counter, phase and outbound messages nor its entry in
\* the connection registry.
C14_Isolation ==
    [][\A c \in Clients : \A d \in Clients \ {c} :
          /\ (sim[c] = NoSim /\ sim'[c] # NoSim) => sim'[c] = NewSim
          /\ Session(c)' # Session(c) =>
                /\ Session(d)' = Session(d)
                /\ Registered(d)' = Registered(d)]_vars

\* the event just yielded came out of the added-time loop
SubTick(e) == e.event_type \notin StructuralTypes /\ e.added_time # Absent

\* C15: added_time is absent on every event yielded in a phase other than
\* ADDED_TIME, the terminal match_end included, and present with a value in
\* [0,15] on every event yielded in ADDED_TIME, the announcement included.
C15_AddedTimeByPhase ==
    [][\A c \in Clients :
          NewEvent(c) =>
             IF sim'[c].phase = "ADDED_TIME"
             THEN event'[c].added_time \in 0..15
             ELSE event'[c].added_time = Absent]_vars

\* C15 as amended: added_time is absent on every event yielded before the
\* added-time loop, the added_time announcement included; an event of the
\* added-time loop carries the number of its sub-tick, in 1..N; and the
\* terminal match_end carries N, the number of added minutes, in 1..5.  Every
\* value that is present lies in [0,15].
C15_AddedTimeField ==
    [][\A c \in Clients :
          NewEvent(c) =>
             LET e == event'[c]
                 phase == sim'[c].phase
                 N == sim'[c].added_minutes
             IN  /\ e.added_time # Absent => e.added_time \in 0..15
                 /\ phase \notin {"ADDED_TIME", "FULL_TIME"} => e.added_time = Absent
                 /\ (phase = "ADDED_TIME" /\ e.event_type = "added_time") =>
                       e.added_time = Absent
                 /\ (phase = "ADDED_TIME" /\ e.event_type # "added_time") =>
                       /\ e.added_time \in 1..N
                       /\ e.added_time = sim'[c].added
                 /\ phase = "FULL_TIME" =>
                       /\ e.event_type = "match_end"
                       /\ e.added_time = N
                       /\ N \in 1..MaxAddedMinutes]_vars

\* the last sub-tick of five added minutes has fired, after an announcement
\* that carried no added_time
C15_Witness ==
    /\ sim["c1"].phase = "ADDED_TIME"
    /\ event["c1"].event_type = "foul"
    /\ event["c1"].added_time = MaxAddedMinutes
    /\ final_event["c1"].event_type = "added_time"
    /\ final_event["c1"].added_time = Absent

\* C18: every yielded event has its minute in [0,120] and where its phase
\* puts it: 0 for match_start, 1..45 in the first half, 45 for halftime and
\* second_half_start, 46..90 in the second half, 90 for the announcement,
\* the added-time events and match_end.  The minute never decreases, and the
\* added-time events carry strictly increasing added_time values in 1..N,
\* with N in 1..5.
C18_MinuteByPhase ==
    [][\A c \in Clients :
          NewEvent(c) =>
             LET e == event'[c]
                 phase == sim'[c].phase
             IN  /\ e.minute \in 0..120
                 /\ e.minute >= event[c].minute
                 /\ e.event_type = "match_start" <=> phase = "KICKOFF"
                 /\ phase = "KICKOFF" => e.minute = 0
                 /\ phase = "FIRST_HALF" => e.minute \in 1..45
                 /\ phase \in {"HALFTIME", "SECOND_HALF_START"} => e.minute = 45
                 /\ phase = "SECOND_HALF" => e.minute \in 46..90
                 /\ phase \in {"ADDED_TIME", "FULL_TIME"} => e.minute = 90
                 /\ phase \in {"ADDED_TIME", "FULL_TIME"} =>
                       sim'[c].added_minutes \in 1..5
                 /\ SubTick(e) =>
                       /\ e.added_time \in 1..sim'[c].added_minutes
                       /\ SubTick(event[c]) => e.added_time > event[c].added_time]_vars

\* two added-time events were yielded, the second at sub-tick 5
C18_Witness ==
    /\ SubTick(event["c1"])
    /\ event["c1"].added_time = MaxAddedMinutes
    /\ event["c1"].minute = SecondHalfLast
    /\ Len(yielded["c1"]) >= 6
    /\ yielded["c1"][Len(yielded["c1"]) - 1].event_type = "play"
    /\ yielded["c1"][Len(yielded["c1"]) - 2].event_type = "added_time"

\* the events yielded since the last structural event
TrailingPlays(c) ==
    LET ys == yielded[c]
        last == {i \in 1..Len(ys) : IsStructural(ys[i])}
    IN  Cardinality({i \in 1..Len(ys) : \A j \in last : j < i})

\* C20: each simulated minute yields zero or one event: the events of a half
\* are no more than the minutes gone by and their minutes strictly increase,
\* the added-time loop yields at most N events, and a complete stream has
\* at least 5 and at most 100 events.
C20_OneEventPerMinute ==
    /\ [](\A c \in Clients :
             /\ sim[c].phase = "FIRST_HALF" =>
                   TrailingPlays(c) <= sim[c].minute
             /\ sim[c].phase = "SECOND_HALF" =>
                   TrailingPlays(c) <= sim[c].minute - FirstHalfLast
             /\ sim[c].phase = "ADDED_TIME" =>
                   /\ TrailingPlays(c) <= sim[c].added
                   /\ sim[c].added <= sim[c].added_minutes
             /\ sim[c].minute <= SecondHalfLast
             /\ sim[c].added_minutes <= MaxAddedMinutes
             /\ sim[c].phase = "FULL_TIME" =>
                   /\ Len(yielded[c]) >= 5
                   /\ Len(yielded[c]) <= 100)
    /\ [][\A c \in Clients :
             (/\ NewEvent(c)
              /\ sim[c].phase = sim'[c].phase
              /\ sim[c].phase \in {"FIRST_HALF", "SECOND_HALF"}) =>
                event'[c].minute > event[c].minute]_vars

\* both firing minutes of the first half have yielded an event
C20_Witness ==
    /\ sim["c1"].phase = "FIRST_HALF"
    /\ sim["c1"].minute = FirstHalfLast
    /\ TrailingPlays("c1") = 2
    /\ event["c1"].minute = FirstHalfLast

\* C16: man_of_the_match of the match_end message names a player of the
\* home roster when the final home score is at least the away score, draws
\* included, and a player of the away roster when it is lower.
C16_ManOfTheMatch ==
    \A c \in Clients : \A i \in 1..Len(outbound[c]) :
        LET m == outbound[c][i]
        IN  m.type = "match_end" =>
               /\ m.final_score.home >= m.final_score.away =>
                     /\ m.man_of_the_match \in GetPlayer("home")
                     /\ m.man_of_the_match \notin GetPlayer("away")
               /\ m.final_score.home < m.final_score.away =>
                     /\ m.man_of_the_match \in GetPlayer("away")
                     /\ m.man_of_the_match \notin GetPlayer("home")

\* a match the away side won has ended
C16_Witness ==
    /\ exit_path["c1"] = "normal"
    /\ outbound["c1"] # <<>>
    /\ LET m == outbound["c1"][Len(outbound["c1"])]
       IN  /\ m.type = "match_end"
           /\ m.final_score = [home |-> 0, away |-> 1]
           /\ m.man_of_the_match = AWAY_PLAYERS[Len(AWAY_PLAYERS)]

IsClientText(m) == m.kind = "text"

\* the echo handler takes the message at the head of the inbound queue
EchoReceives(c) ==
    /\ pc[c] = "echo"
    /\ inbound[c] # <<>>
    /\ inbound'[c] = Tail(inbound[c])

\* C17: on /ws/test the first outbound message is the welcome message, and
\* until the client disconnects every text it sends is answered by exactly
\* one echo message carrying that text, in the order the texts arrive.
C17_Echo ==
    /\ [](\A c \in Clients :
             LET out == outbound[c]
             IN  /\ pc[c] \in {"echo", "done"} =>
                       (out # <<>> /\ out[1] = WelcomeMessage)
                 /\ pc[c] = "echo" =>
                       /\ \A i \in 2..Len(out) : out[i].type = "echo"
                       /\ connected[c] =>
                             (Len(out) - 1) + Len(SelectSeq(inbound[c], IsClientText))
                                = client_sent[c])
    /\ [][\A c \in Clients :
             (/\ EchoReceives(c)
              /\ Head(inbound[c]).kind = "text"
              /\ connected[c]) =>
                /\ outbound'[c] = Append(outbound[c],
                                          [type |-> "echo",
                                           message |-> Head(inbound[c]).text])
                /\ pc'[c] = "echo"]_vars

\* two different texts were echoed, in the order they were sent
C17_Witness ==
    /\ pc["c1"] = "echo"
    /\ Len(outbound["c1"]) = 3
    /\ outbound["c1"][2].type = "echo"
    /\ outbound["c1"][2].message.wellformed
    /\ outbound["c1"][3].type = "echo"
    /\ ~outbound["c1"][3].message.wellformed

IsPenalty(e) == e.event_type \in {"penalty_scored", "penalty_missed"}

Shots(stats, team) ==
    IF team = "home" THEN stats.shots_home ELSE stats.shots_away

ShotsOnTarget(stats, team) ==
    IF team = "home" THEN stats.shots_on_target_home ELSE stats.shots_on_target_away

Goals(score, team) == IF team = "home" THEN score.home ELSE score.away

OtherSide(team) == IF team = "home" THEN "away" ELSE "home"

Resumed(c) ==
    IF yielded[c] = <<>> THEN <<>>
    ELSE SubSeq(yielded[c], 1, Len(yielded[c]) - 1)

IsPlay(y) == y.event_type \notin StructuralTypes

\* C21: in each active half the Driver makes one paced suspension per
\* simulated minute, whether or not the minute produced an event: 45 in the
\* first half and 45 in the second, beside the fixed suspensions after
\* match_start, halftime, second_half_start and the added_time announcement.
C21_SleepPerMinute ==
    \A c \in Clients :
        /\ sim[c].phase = "HALFTIME" =>
              sleeps[c] = [paced |-> FirstHalfLast, fixed |-> 1]
        /\ (sim[c].phase = "ADDED_TIME" /\ event[c].event_type = "added_time") =>
              sleeps[c] = [paced |-> SecondHalfLast, fixed |-> 3]

\* C21 as amended: the Driver makes one paced suspension after each event a
\* loop yields and none on a minute without an event, so at most 45 in a
\* half; and one fixed suspension after each of match_start, halftime,
\* second_half_start and the added_time announcement, none after match_end.
C21_SleepPerEvent ==
    \A c \in Clients :
        /\ sleeps[c].paced = Len(SelectSeq(Resumed(c), IsPlay))
        /\ sleeps[c].fixed = Len(SelectSeq(Resumed(c), IsStructural))
        /\ sim[c].phase = "HALFTIME" =>
              (sleeps[c].paced <= FirstHalfLast /\ sleeps[c].fixed = 1)
        /\ (sim[c].phase = "ADDED_TIME" /\ event[c].event_type = "added_time") =>
              (sleeps[c].paced <= SecondHalfLast /\ sleeps[c].fixed = 3)
        /\ sim[c].phase = "FULL_TIME" =>
              /\ sleeps[c].fixed = 4
              /\ sleeps[c].paced = Len(yielded[c]) - 5

\* a match in which two minutes of the first half fired has ended
C21_Witness ==
    /\ pc["c1"] = "done"
    /\ sim["c1"].phase = "FULL_TIME"
    /\ sleeps["c1"].paced >= 2
    /\ sleeps["c1"].fixed = 4
    /\ yielded["c1"][2].event_type = "play"
    /\ yielded["c1"][3].event_type = "play"
    /\ yielded["c1"][4].event_type = "halftime"

IsPong(m) == m.type = "pong"

\* C22: control messages are observed only between generated events: the
\* session reads at most one client message per match_event sent; every
\* pong stands directly after a match_event message, so at most one between
\* two match_event messages, none before the first and none after match_end;
\* and the pongs sent never outnumber the pings received.
C22_PollBetweenEvents ==
    /\ [](\A c \in Clients :
             LET out == outbound[c]
             IN  /\ polls[c].reads <= EventsSent(c)
                 /\ polls[c].pings <= polls[c].reads
                 /\ Len(SelectSeq(out, IsPong)) <= polls[c].pings
                 /\ \A i \in 1..Len(out) :
                       IsPong(out[i]) =>
                          /\ i > 1
                          /\ out[i - 1].type = "match_event"
                          /\ \A j \in 1..i : out[j].type # "match_end")
    /\ [][\A c \in Clients :
             /\ polls'[c] # polls[c] =>
                   /\ pc[c] = "poll"
                   /\ pc'[c] = "next"
                   /\ polls'[c].reads = polls[c].reads + 1
                   /\ Len(inbound'[c]) = Len(inbound[c]) - 1
                   /\ sim'[c] = sim[c]
             /\ Len(inbound'[c]) < Len(inbound[c]) => pc[c] = "poll"
             /\ outbound'[c] # outbound[c] /\ IsPong(outbound'[c][Len(outbound'[c])]) =>
                   /\ polls'[c].pings = polls[c].pings + 1
                   /\ outbound'[c] = Append(outbound[c], PongMessage)]_vars

\* two pings were received, by the polls of the first two match_events, each
\* answered before the next match_event, and the match ran to its end
C22_Witness ==
    /\ exit_path["c1"] = "normal"
    /\ polls["c1"] = [reads |-> 2, pings |-> 2]
    /\ Len(outbound["c1"]) >= 6
    /\ outbound["c1"][2].type = "match_event"
    /\ outbound["c1"][3].type = "pong"
    /\ outbound["c1"][4].type = "match_event"
    /\ outbound["c1"][5].type = "pong"

\* the counters of one side
CountersOf(stats, team) ==
    IF team = "home"
    THEN [shots |-> stats.shots_home,
          shots_on_target |-> stats.shots_on_target_home,
          corners |-> stats.corners_home, fouls |-> stats.fouls_home,
          yellow_cards |-> stats.yellow_cards_home,
          red_cards |-> stats.red_cards_home]
    ELSE [shots |-> stats.shots_away,
          shots_on_target |-> stats.shots_on_target_away,
          corners |-> stats.corners_away, fouls |-> stats.fouls_away,
          yellow_cards |-> stats.yellow_cards_away,
          red_cards |-> stats.red_cards_away]

NoRaise ==
    [shots |-> 0, shots_on_target |-> 0, corners |-> 0, fouls |-> 0,
     yellow_cards |-> 0, red_cards |-> 0]

\* what an event of each type adds to the counters of its own side
Raises ==
    [goal |-> [NoRaise EXCEPT !.shots = 1, !.shots_on_target = 1],
     yellow_card |-> [NoRaise EXCEPT !.yellow_cards = 1, !.fouls = 1],
     red_card |-> [NoRaise EXCEPT !.red_cards = 1, !.fouls = 1],
     save |-> [NoRaise EXCEPT !.shots = 1, !.shots_on_target = 1],
     shot_off_target |-> [NoRaise EXCEPT !.shots = 1],
     corner |-> [NoRaise EXCEPT !.corners = 1],
     foul |-> [NoRaise EXCEPT !.fouls = 1],
     possession_change |-> NoRaise, offside |-> NoRaise, free_kick |-> NoRaise,
     injury |-> NoRaise]

Plus(counters, raise) == [k \in DOMAIN counters |-> counters[k] + raise[k]]

\* C23: an event raises only counters of its own side, each by exactly 1:
\* goal and save raise shots and shots_on_target, yellow_card its card and
\* fouls, red_card its card and fouls, shot_off_target shots, corner corners,
\* foul fouls; possession_change, offside, free_kick, injury and the
\* structural events raise none; the other side's counters stay as they
\* were, and no counter ever decreases.
C23_CountersOwnSide ==
    [][\A c \in Clients :
          /\ \A team \in Sides : \A k \in DOMAIN NoRaise :
                CountersOf(sim'[c].stats, team)[k] >= CountersOf(sim[c].stats, team)[k]
          /\ NewEvent(c) =>
                LET e == event'[c]
                    before == event[c].stats
                IN  /\ e.stats = sim'[c].stats
                    /\ e.event_type \in StructuralTypes =>
                          \A team \in Sides :
                             CountersOf(e.stats, team) = CountersOf(before, team)
                    /\ e.event_type \in DOMAIN Raises =>
                          /\ e.team \in Sides
                          /\ CountersOf(e.stats, e.team) =
                                Plus(CountersOf(before, e.team), Raises[e.event_type])
                          /\ CountersOf(e.stats, OtherSide(e.team)) =
                                CountersOf(before, OtherSide(e.team))]_vars

\* a red card of the away side was yielded
C23_Witness ==
    /\ event["c1"].event_type = "red_card"
    /\ event["c1"].team = "away"
    /\ CountersOf(event["c1"].stats, "away") =
          [NoRaise EXCEPT !.red_cards = 1, !.fouls = 1]
    /\ CountersOf(event["c1"].stats, "home") = NoRaise
    /\ event["c1"].minute = SecondHalfLast

\* C24: on every goal event the scorer is a player of the scoring side's
\* roster, and the assister is absent or a player of the same roster whose
\* name is not the scorer's; no event other than a goal has an assister.
C24_ScorerAndAssister ==
    \A c \in Clients :
        /\ event[c].event_type = "goal" =>
              /\ event[c].team \in Sides
              /\ detail[c].player \in GetPlayer(event[c].team)
              /\ \/ detail[c].secondary_player = NoPlayer
                 \/ /\ detail[c].secondary_player \in GetPlayer(event[c].team)
                    /\ detail[c].secondary_player # detail[c].player
        /\ event[c].event_type # "goal" =>
              detail[c].secondary_player = NoPlayer

\* a goal was yielded whose assister had first been drawn as the scorer
C24_Witness ==
    /\ event["c1"].event_type = "goal"
    /\ event["c1"].team = "away"
    /\ goal["c1"].redraws_odd
    /\ detail["c1"].player = goal["c1"].scorer
    /\ detail["c1"].player = "Ahmed Hassan"
    /\ detail["c1"].secondary_player = "Oliver Thompson"

\* the event types that are declared and never yielded
NeverYielded == {"penalty_awarded", "shot_on_target", "substitution"}

\* the types of the events one drawn type can come out as, in the state of c
YieldedAs(c, draw) ==
    {GenerateRandomEvent(sim[c], SecondHalfLast, team, draw, converted, 0).event.event_type :
        team \in Sides,
        converted \in IF draw = "penalty_awarded" THEN BOOLEAN ELSE {TRUE}}

TextsOf(catalog, event_type) ==
    IF event_type \in DOMAIN catalog
    THEN {catalog[event_type][i] : i \in 1..Len(catalog[event_type])}
    ELSE {}

\* C26: on every yielded event crowd_reaction is present exactly when
\* CROWD_REACTIONS has an entry for the event's type, ted_reaction is absent
\* whenever TED_REACTIONS has none, and each reaction that is present, and
\* the commentary, is one of the catalog's texts for that same type.
C26_Reactions ==
    \A c \in Clients :
        event[c] # NoEvent =>
           LET t == event[c].event_type
               d == detail[c]
           IN  /\ d.crowd_reaction # NoReaction <=> t \in DOMAIN CROWD_REACTIONS
               /\ t \notin DOMAIN TED_REACTIONS => d.ted_reaction = NoReaction
               /\ d.crowd_reaction # NoReaction =>
                     d.crowd_reaction \in TextsOf(CROWD_REACTIONS, t)
               /\ d.ted_reaction # NoReaction =>
                     d.ted_reaction \in TextsOf(TED_REACTIONS, t)
               /\ d.commentary \in TextsOf(COMMENTARY, t)

\* a save was yielded with a crowd reaction and without a Ted reaction
C26_Witness ==
    /\ event["c1"].event_type = "save"
    /\ detail["c1"].ted_reaction = NoReaction
    /\ detail["c1"].crowd_reaction = "The crowd rises to their feet for that save!"
    /\ detail["c1"].commentary = "WHAT A SAVE! Incredible reflexes!"
    /\ final_event["c1"].event_type = "match_start"

\* score <= shots_on_target <= shots and cards <= fouls, for one side
Consistent(score, stats, team) ==
    LET n == CountersOf(stats, team)
    IN  /\ Goals(score, team) <= n.shots_on_target
        /\ n.shots_on_target <= n.shots
        /\ n.yellow_cards + n.red_cards <= n.fouls

\* C27: in every reachable state and for each side, score <=
\* shots_on_target <= shots and yellow_cards + red_cards <= fouls; and in
\* every snapshot each side's score is the number of goal and penalty_scored
\* events yielded so far for that side.
C27_StatsConsistent ==
    \A c \in Clients : \A team \in Sides :
        /\ Consistent(sim[c].score, sim[c].stats, team)
        /\ Consistent(event[c].score, event[c].stats, team)
        /\ Consistent(final_event[c].score, final_event[c].stats, team)
        /\ Goals(event[c].score, team) = Goals(goals_for[c], team)
        /\ Goals(sim[c].score, team) = Goals(goals_for[c], team)

\* a missed penalty and then a goal of the home side were yielded
C27_Witness ==
    /\ final_event["c1"].event_type = "penalty_missed"
    /\ event["c1"].event_type = "goal"
    /\ event["c1"].score = [home |-> 1, away |-> 0]
    /\ goals_for["c1"] = [home |-> 1, away |-> 0]
    /\ CountersOf(event["c1"].stats, "home") =
          [NoRaise EXCEPT !.shots = 2, !.shots_on_target = 1]

\* the handler of c is running: accepted and not yet returned
Running(c) == pc[c] \notin {"idle", "done"}

\* C28: when a live-match handler returns, by whatever path, its client_id
\* is not in active_connections; an entry is in the registry only between
\* the accept of its connection and the return of its handler, so the
\* registry holds no finished session and never more entries than handlers
\* that are running.
C28_RegistryCleanup ==
    /\ [](\A c \in Clients :
             /\ pc[c] = "done" => ~Registered(c)
             /\ pc[c] = "idle" => ~Registered(c))
    /\ [](\A id \in DOMAIN active_connections :
             /\ Running(active_connections[id])
             /\ client_id[active_connections[id]] = id)
    /\ [](Cardinality(DOMAIN active_connections) <=
             Cardinality({c \in Clients : Running(c)}))
    /\ [][\A c \in Clients :
             (pc[c] # "done" /\ pc'[c] = "done") =>
                client_id[c] \notin DOMAIN active_connections']_vars

\* one session ended with match_end and the other with a failure that could
\* not be reported, and the registry is empty
C28_Witness ==
    /\ exit_path["c1"] = "normal"
    /\ exit_path["c2"] = "internal_error"
    /\ ~closed["c2"]
    /\ pc["c1"] = "done"
    /\ pc["c2"] = "done"
    /\ client_id["c1"] # client_id["c2"]
    /\ DOMAIN active_connections = {}

\* C29: final_stats of the match_end message are the stats snapshot of the
\* last match_event, counters and both possession values: between the
\* terminal match_end event and the match_end message nothing changes a
\* counter, a possession value or the score, also while the control poll
\* after the terminal event handles a client message.
C29_FinalStats ==
    /\ [](\A c \in Clients : \A i \in 1..Len(outbound[c]) :
             outbound[c][i].type = "match_end" =>
                /\ final_event[c].event_type = "match_end"
                /\ outbound[c][i].final_stats = final_event[c].stats
                /\ outbound[c][i].final_score = final_event[c].score)
    /\ [][\A c \in Clients :
             sim[c].phase = "FULL_TIME" =>
                /\ sim'[c].stats = sim[c].stats
                /\ sim'[c].score = sim[c].score
                /\ event'[c] = event[c]
                /\ sim[c].stats = event[c].stats
                /\ sim[c].score = event[c].score]_vars

\* the poll after the terminal event answered a ping, and the match_end
\* message of a match with a goal followed
C29_Witness ==
    /\ exit_path["c1"] = "normal"
    /\ LET out == outbound["c1"]
           n == Len(out)
       IN  /\ n >= 5
           /\ out[n].type = "match_end"
           /\ out[n].final_score = [home |-> 0, away |-> 1]
           /\ out[n].final_stats.shots_on_target_away = 1
           /\ out[n - 1].type = "pong"
           /\ out[n - 2].type = "match_event"
           /\ out[n - 2].event_type = "match_end"

\* C30: the score and stats of an event are copies taken when the event is
\* created. The event just yielded carries the score and stats of that
\* moment, and generating a later event, which changes the live score and
\* stats of the session, leaves the score and stats of the earlier event the
\* handler still holds as they were; the held event is only replaced, by the
\* handler taking the next event.
C30_SnapshotCopies ==
    /\ [](\A c \in Clients :
             pc[c] = "send" => /\ event[c].score = sim[c].score
                               /\ event[c].stats = sim[c].stats)
    /\ [][\A c \in Clients :
             /\ (yielded'[c] # yielded[c] /\ final_event[c] # NoEvent) =>
                   /\ final_event'[c].score = final_event[c].score
                   /\ final_event'[c].stats = final_event[c].stats
                   /\ final_event'[c].event_id = final_event[c].event_id
             /\ final_event'[c] # final_event[c] =>
                   /\ pc[c] = "send"
                   /\ final_event'[c] = event[c]]_vars

\* a later event has been generated and has moved the live score and
\* counters away from those of the earlier event the handler holds
C30_Witness ==
    /\ pc["c1"] = "send"
    /\ final_event["c1"] # NoEvent
    /\ event["c1"].event_id > final_event["c1"].event_id
    /\ final_event["c1"].score # sim["c1"].score
    /\ final_event["c1"].stats # sim["c1"].stats
    /\ final_event["c1"].score.home = 1
    /\ sim["c1"].score.home = 2

====
